---- MODULE Spec2Model ----
(***************************************************************************)
(* Model of the agent coordination runtime of jarvis-commander ("Max"):    *)
(*   - core/event_bus.py   EventBus (publish / subscribe / get_state)      *)
(*   - core/brain.py       Brain.think / think_stream tool loop, history   *)
(*   - core/sentinel.py    _crash_recovery supervised workers              *)
(*   - core/thought_engine.py  the shared bounded thought list, the cycle   *)
(*   - core/free_talk.py   FreeTalkController._talk_loop                   *)
(*   - skills/__init__.py  the skill decorator and SkillRegistry           *)
(*   - core/self_heal.py   SelfHealer._heal_loop                           *)
(* Each component has its own specification (SpecBus, SpecBrain,           *)
(* SpecWorker, SpecThought, SpecCycle, SpecTalk, SpecRegistry, SpecChat,   *)
(* SpecDeepThink, SpecInject, SpecHeal) over the same variables; the       *)
(* variables of the other components stay at their initial value.          *)
(***************************************************************************)
EXTENDS Integers, Sequences, FiniteSets, Bags, TLC

VARIABLES
    bus_state,        \* EventBus._state: topic -> latest payload (None = key absent)
    bus_subscribers,  \* EventBus._subscribers: topic -> list of handlers
    pub,              \* per publishing thread: where it is inside publish()
    tasks,            \* bag of the live handler tasks made by asyncio.create_task
    bus_hist,         \* history: per topic the payload last written and last completed
    conversation_history, \* Brain.conversation_history
    config,           \* MaxConfig: max_history, max_concurrent_tools
    registry,         \* Brain.skill_registry: "present" or None; where the registry
                      \* itself is explored, skills._SKILLS and SkillRegistry
    turn,             \* per execution context: the think()/think_stream() call in progress
    turn_seq,         \* number of turns started so far (names the turns)
    ollama_no_tools,  \* Brain._ollama_no_tools
    wstate,           \* per supervised worker: where its thread is in _crash_recovery
    wsleep,           \* per supervised worker: the argument of the time.sleep it is in
    wcount,           \* crashes and returns of the loop functions so far
    healer,           \* SelfHealer: _cooldown and the place of _heal_loop
    thoughts,         \* thought_engine._THOUGHTS
    inserted,         \* number of _add_thought calls so far
    engine,           \* ThoughtEngine: _cycle_count, _last_context_hash, brain
    talk,             \* FreeTalkController: its flags, timer and the place of _talk_loop
    now               \* time.time(), in seconds

busVars == <<bus_state, bus_subscribers, pub, tasks, bus_hist>>
brainVars == <<conversation_history, config, registry, turn, turn_seq, ollama_no_tools>>
workerVars == <<wstate, wsleep, wcount, healer>>
thoughtVars == <<thoughts, inserted>>
mindVars == <<engine, talk, now>>
vars == <<bus_state, bus_subscribers, pub, tasks, bus_hist,
          conversation_history, config, registry, turn, turn_seq, ollama_no_tools,
          wstate, wsleep, wcount, healer, thoughts, inserted, engine, talk, now>>

None == "None"

Last(s) == s[Len(s)]

Min(a, b) == IF a < b THEN a ELSE b

(***************************************************************************)
(* State Bus: core/event_bus.py                                            *)
(***************************************************************************)

Topics == {"sentinel.camera", "sentinel.yolo"}
Payloads == {"p1", "p2"}
Handlers == {"h1", "h2"}
\* The callers of publish(): _publish_sync on a thread that has a running
\* event loop schedules bus.publish on that loop (w1); on a worker thread
\* without one it runs bus.publish inside asyncio.run (w2).
Publishers == {"w1", "w2"}
PublisherMode == [w \in Publishers |-> IF w = "w1" THEN "loop" ELSE "thread"]

\* Number of publish() calls explored.
MaxPublishes == 2
\* Number of subscribe() calls explored.
MaxSubscribes == 1

\* Number of publish() and of subscribe() calls explored where the claims are
\* about the handlers.
MaxDeliveries == 1
MaxRegistrations == 2

\* Number of _publish_sync() calls explored where the claim is about their order.
MaxOrdered == 3

\* What a specification explores: how many calls, on which topics and with
\* which payloads, whether a publish() call keeps the trace of its handlers,
\* and whether the scheduling of publish() on the running loop is a step of
\* its own (order), with the log of the stores.
BusScope == [calls |-> MaxPublishes, subs |-> MaxSubscribes,
             topics |-> Topics, payloads |-> Payloads, trace |-> FALSE, order |-> FALSE]
DeliveryScope == [calls |-> MaxDeliveries, subs |-> MaxRegistrations,
                  topics |-> {"sentinel.camera"}, payloads |-> {"p1"}, trace |-> TRUE,
                  order |-> FALSE]
ProgressScope == [calls |-> MaxPublishes, subs |-> MaxSubscribes,
                  topics |-> Topics, payloads |-> {"p1"}, trace |-> FALSE, order |-> FALSE]
OrderScope == [calls |-> MaxOrdered, subs |-> 0,
               topics |-> Topics, payloads |-> {"p1"}, trace |-> FALSE, order |-> TRUE]

\* snap: the topic's subscriber list when the call started; invoked: the
\* handlers the call has invoked so far (the trace, kept for the claims only).
\* queue: the publish() coroutines _publish_sync has scheduled on the running
\* loop and the loop has not started yet.
IdlePub == [pc |-> "idle", topic |-> None, data |-> None, i |-> 0,
            snap |-> <<>>, invoked |-> <<>>, queue |-> <<>>]

InitBus ==
    /\ bus_state = [t \in Topics |-> None]
    /\ bus_subscribers = [t \in Topics |-> <<>>]
    /\ pub = [w \in Publishers |-> IdlePub]
    /\ tasks = EmptyBag
    /\ bus_hist = [written |-> [t \in Topics |-> None],
                   completed |-> [t \in Topics |-> None],
                   calls |-> 0,
                   subs |-> 0,
                   failed |-> FALSE,
                   log |-> <<>>,
                   scope |-> BusScope]
    \* the other components are not constructed
    /\ conversation_history = <<>> /\ config = <<>> /\ registry = None
    /\ ollama_no_tools = FALSE
    /\ turn = <<>> /\ turn_seq = 0
    /\ wstate = <<>> /\ wsleep = <<>> /\ wcount = <<>> /\ healer = <<>>
    /\ thoughts = <<>> /\ inserted = 0
    /\ engine = <<>> /\ talk = <<>> /\ now = 0

\* The same bus, explored for what happens to the handlers.
InitDelivery ==
    /\ bus_state = [t \in Topics |-> None]
    /\ bus_subscribers = [t \in Topics |-> <<>>]
    /\ pub = [w \in Publishers |-> IdlePub]
    /\ tasks = EmptyBag
    /\ bus_hist = [written |-> [t \in Topics |-> None],
                   completed |-> [t \in Topics |-> None],
                   calls |-> 0,
                   subs |-> 0,
                   failed |-> FALSE,
                   log |-> <<>>,
                   scope |-> DeliveryScope]
    \* the other components are not constructed
    /\ conversation_history = <<>> /\ config = <<>> /\ registry = None
    /\ ollama_no_tools = FALSE
    /\ turn = <<>> /\ turn_seq = 0
    /\ wstate = <<>> /\ wsleep = <<>> /\ wcount = <<>> /\ healer = <<>>
    /\ thoughts = <<>> /\ inserted = 0
    /\ engine = <<>> /\ talk = <<>> /\ now = 0

\* get_state(topic): self._state.get(topic)
GetState(t) == bus_state[t]

\* get_all_state(): dict(self._state), the keys present with their values
GetAllState == [t \in {k \in Topics : bus_state[k] # None} |-> bus_state[t]]

\* A handler task, as asyncio.create_task(handler(data)) makes it; owner is
\* the publisher whose event loop holds the task.
Task(h, t, p, st, w) == [handler |-> h, topic |-> t, data |-> p, st |-> st, owner |-> w]

\* a subscribe that replays the topic's stored entry to the new handler
SubscribeReplays(t, h) ==
    /\ bus_hist.subs < bus_hist.scope.subs
    /\ t \in bus_hist.scope.topics
    /\ bus_subscribers' = [bus_subscribers EXCEPT ![t] = Append(@, h)]
    /\ bus_hist' = [bus_hist EXCEPT !.subs = @ + 1]
    /\ tasks' = IF bus_state[t] = None THEN tasks
                ELSE tasks (+) SetToBag({Task(h, t, bus_state[t], "pending", "w1")})
    /\ UNCHANGED <<bus_state, pub>>
    /\ UNCHANGED <<brainVars, workerVars, thoughtVars, mindVars>>

\* subscribe(topic, handler): append to the topic's list
Subscribe(t, h) ==
    /\ bus_hist.subs < bus_hist.scope.subs
    /\ t \in bus_hist.scope.topics
    /\ bus_subscribers' = [bus_subscribers EXCEPT ![t] = Append(@, h)]
    /\ bus_hist' = [bus_hist EXCEPT !.subs = @ + 1]
    /\ UNCHANGED <<bus_state, pub, tasks>>
    /\ UNCHANGED <<brainVars, workerVars, thoughtVars, mindVars>>

\* list.remove: drops the first occurrence
RemoveFirst(s, x) ==
    LET idx == CHOOSE i \in 1..Len(s) : s[i] = x /\ \A j \in 1..(i - 1) : s[j] # x
    IN  SubSeq(s, 1, idx - 1) \o SubSeq(s, idx + 1, Len(s))

\* unsubscribe(topic, handler)
Unsubscribe(t, h) ==
    /\ \E i \in 1..Len(bus_subscribers[t]) : bus_subscribers[t][i] = h
    /\ bus_subscribers' = [bus_subscribers EXCEPT ![t] = RemoveFirst(@, h)]
    /\ UNCHANGED <<bus_state, pub, tasks, bus_hist>>
    /\ UNCHANGED <<brainVars, workerVars, thoughtVars, mindVars>>

\* _publish_sync on a thread with a running loop only schedules publish():
\*     loop.create_task(bus.publish(topic, data))
\* k numbers the _publish_sync calls in the order they are made.
RunsQueued(w) == bus_hist.scope.order /\ PublisherMode[w] = "loop"

PublishSchedule(w, t, p) ==
    /\ RunsQueued(w)
    /\ bus_hist.calls < bus_hist.scope.calls
    /\ t \in bus_hist.scope.topics /\ p \in bus_hist.scope.payloads
    /\ pub' = [pub EXCEPT ![w].queue =
                   Append(@, [topic |-> t, data |-> p, k |-> bus_hist.calls + 1])]
    /\ bus_hist' = [bus_hist EXCEPT !.calls = @ + 1]
    /\ UNCHANGED <<bus_state, bus_subscribers, tasks>>
    /\ UNCHANGED <<brainVars, workerVars, thoughtVars, mindVars>>

\* a loop that starts the coroutine scheduled last
ScheduledNewestAt(w) == Len(pub[w].queue)

\* The event loop starts the coroutines in the order they were scheduled.
ScheduledAt(w) == 1
Scheduled(w) == pub[w].queue[ScheduledAt(w)]
Unscheduled(w) ==
    SubSeq(pub[w].queue, 1, ScheduledAt(w) - 1)
        \o SubSeq(pub[w].queue, ScheduledAt(w) + 1, Len(pub[w].queue))

\* publish that keeps the first payload of a topic (setdefault instead of assignment)
PublishWriteKeepsFirst(w, t, p) ==
    /\ pub[w].pc = "idle"
    /\ t \in bus_hist.scope.topics /\ p \in bus_hist.scope.payloads
    /\ IF RunsQueued(w)
       THEN pub[w].queue # <<>> /\ Scheduled(w).topic = t /\ Scheduled(w).data = p
       ELSE bus_hist.calls < bus_hist.scope.calls
    /\ bus_state' = [bus_state EXCEPT ![t] = IF @ = None THEN p ELSE @]
    /\ pub' = [pub EXCEPT ![w] = [pc |-> "notify", topic |-> t, data |-> p, i |-> 0,
                                  snap |-> IF bus_hist.scope.trace THEN bus_subscribers[t] ELSE <<>>,
                                  invoked |-> <<>>,
                                  queue |-> IF RunsQueued(w) THEN Unscheduled(w) ELSE <<>>]]
    /\ bus_hist' = [bus_hist EXCEPT
                       !.calls = IF RunsQueued(w) THEN @ ELSE @ + 1,
                       !.written[t] = p,
                       !.log = IF bus_hist.scope.order
                               THEN Append(@, [w |-> w, topic |-> t,
                                               k |-> IF RunsQueued(w) THEN Scheduled(w).k
                                                     ELSE bus_hist.calls + 1])
                               ELSE @]
    /\ UNCHANGED <<bus_subscribers, tasks>>
    /\ UNCHANGED <<brainVars, workerVars, thoughtVars, mindVars>>

\* A thread calls publish(topic, data); the call runs up to the end of
\*     async with self._lock: self._state[topic] = data
\* The lock is held for this assignment alone, so the locked section is one step.
PublishWrite(w, t, p) ==
    /\ pub[w].pc = "idle"
    /\ t \in bus_hist.scope.topics /\ p \in bus_hist.scope.payloads
    /\ IF RunsQueued(w)
       THEN pub[w].queue # <<>> /\ Scheduled(w).topic = t /\ Scheduled(w).data = p
       ELSE bus_hist.calls < bus_hist.scope.calls
    /\ bus_state' = [bus_state EXCEPT ![t] = p]
    /\ pub' = [pub EXCEPT ![w] = [pc |-> "notify", topic |-> t, data |-> p, i |-> 0,
                                  snap |-> IF bus_hist.scope.trace THEN bus_subscribers[t] ELSE <<>>,
                                  invoked |-> <<>>,
                                  queue |-> IF RunsQueued(w) THEN Unscheduled(w) ELSE <<>>]]
    /\ bus_hist' = [bus_hist EXCEPT
                       !.calls = IF RunsQueued(w) THEN @ ELSE @ + 1,
                       !.written[t] = p,
                       !.log = IF bus_hist.scope.order
                               THEN Append(@, [w |-> w, topic |-> t,
                                               k |-> IF RunsQueued(w) THEN Scheduled(w).k
                                                     ELSE bus_hist.calls + 1])
                               ELSE @]
    /\ UNCHANGED <<bus_subscribers, tasks>>
    /\ UNCHANGED <<brainVars, workerVars, thoughtVars, mindVars>>

\* The handler the loop over the live list is at.
HandlerAt(w) == bus_subscribers[pub[w].topic][pub[w].i + 1]

\* for handler in self._subscribers.get(topic, []): asyncio.create_task(handler(data))
\* one iteration of the loop over the live list
PublishNotify(w) ==
    /\ pub[w].pc = "notify"
    /\ pub[w].i < Len(bus_subscribers[pub[w].topic])
    /\ tasks' = tasks (+) SetToBag({Task(HandlerAt(w), pub[w].topic, pub[w].data, "pending", w)})
    /\ pub' = [pub EXCEPT ![w].i = @ + 1, ![w].invoked = IF bus_hist.scope.trace THEN Append(@, HandlerAt(w)) ELSE @]
    /\ UNCHANGED <<bus_state, bus_subscribers, bus_hist>>
    /\ UNCHANGED <<brainVars, workerVars, thoughtVars, mindVars>>

\* an exception of handler(data) that leaves publish(): the loop over the
\* subscribers is abandoned
PublishNotifyRaisePropagates(w) ==
    /\ pub[w].pc = "notify"
    /\ pub[w].i < Len(bus_subscribers[pub[w].topic])
    /\ pub' = [pub EXCEPT ![w] = IdlePub]
    /\ UNCHANGED <<bus_state, bus_subscribers, tasks, bus_hist>>
    /\ UNCHANGED <<brainVars, workerVars, thoughtVars, mindVars>>

\* One iteration in which handler(data) raises, or returns something that is
\* not a coroutine so that create_task raises: `except Exception` logs it, no
\* task is made and the loop goes on.
PublishNotifyRaise(w) ==
    /\ pub[w].pc = "notify"
    /\ pub[w].i < Len(bus_subscribers[pub[w].topic])
    /\ pub' = [pub EXCEPT ![w].i = @ + 1, ![w].invoked = IF bus_hist.scope.trace THEN Append(@, HandlerAt(w)) ELSE @]
    /\ UNCHANGED <<bus_state, bus_subscribers, tasks, bus_hist>>
    /\ UNCHANGED <<brainVars, workerVars, thoughtVars, mindVars>>

\* a publish() that returns only when the tasks it made are finished
PublishReturnWaits(w) ==
    /\ pub[w].pc = "notify"
    /\ pub[w].i >= Len(bus_subscribers[pub[w].topic])
    /\ \A k \in BagToSet(tasks) : k.owner # w
    /\ bus_hist' = [bus_hist EXCEPT !.completed[pub[w].topic] = pub[w].data]
    /\ pub' = [pub EXCEPT ![w] = IF PublisherMode[w] = "thread"
                                 THEN [IdlePub EXCEPT !.pc = "drain"]
                                 ELSE [IdlePub EXCEPT !.queue = pub[w].queue]]
    /\ UNCHANGED <<bus_state, bus_subscribers, tasks>>
    /\ UNCHANGED <<brainVars, workerVars, thoughtVars, mindVars>>

\* The loop is exhausted: publish() returns.  On the running loop the caller
\* goes on; under asyncio.run the temporary loop now runs what is ready.
PublishReturn(w) ==
    /\ pub[w].pc = "notify"
    /\ pub[w].i >= Len(bus_subscribers[pub[w].topic])
    /\ bus_hist' = [bus_hist EXCEPT !.completed[pub[w].topic] = pub[w].data]
    /\ pub' = [pub EXCEPT ![w] = IF PublisherMode[w] = "thread"
                                 THEN [IdlePub EXCEPT !.pc = "drain"]
                                 ELSE [IdlePub EXCEPT !.queue = pub[w].queue]]
    /\ UNCHANGED <<bus_state, bus_subscribers, tasks>>
    /\ UNCHANGED <<brainVars, workerVars, thoughtVars, mindVars>>

\* asyncio.run winds down: when every task of the temporary loop has had its
\* first step, the tasks still suspended are cancelled and the loop is closed.
PublishClose(w) ==
    /\ pub[w].pc = "drain"
    /\ \A k \in BagToSet(tasks) : k.owner = w => k.st # "pending"
    /\ tasks' = [k \in {j \in BagToSet(tasks) : j.owner # w} |-> tasks[k]]
    /\ pub' = [pub EXCEPT ![w] = IdlePub]
    /\ UNCHANGED <<bus_state, bus_subscribers, bus_hist>>
    /\ UNCHANGED <<brainVars, workerVars, thoughtVars, mindVars>>

\* The event loop that holds task k is free to run it: the running loop when
\* no publish() is executing on it (publish has no await after the lock), the
\* temporary loop of asyncio.run once publish() has returned.
CanStep(k) ==
    IF PublisherMode[k.owner] = "loop"
    THEN \A w \in Publishers : PublisherMode[w] = "loop" => pub[w].pc = "idle"
    ELSE pub[k.owner].pc = "drain"

\* The event loop runs a handler task: it starts, then finishes or raises.
TaskStart(k) ==
    /\ k.st = "pending"
    /\ CanStep(k)
    /\ tasks' = (tasks (-) SetToBag({k})) (+) SetToBag({[k EXCEPT !.st = "running"]})
    /\ UNCHANGED <<bus_state, bus_subscribers, pub, bus_hist>>
    /\ UNCHANGED <<brainVars, workerVars, thoughtVars, mindVars>>

\* A finished task is referenced by nobody (fire-and-forget): it leaves the
\* loop's task set.
TaskFinish(k) ==
    /\ k.st = "running"
    /\ CanStep(k)
    /\ tasks' = tasks (-) SetToBag({k})
    /\ UNCHANGED <<bus_state, bus_subscribers, pub, bus_hist>>
    /\ UNCHANGED <<brainVars, workerVars, thoughtVars, mindVars>>

\* a failing handler that takes the topic's entry with it
TaskFailDropsState(k) ==
    /\ k.st = "running"
    /\ CanStep(k)
    /\ tasks' = tasks (-) SetToBag({k})
    /\ bus_hist' = [bus_hist EXCEPT !.failed = TRUE]
    /\ bus_state' = [bus_state EXCEPT ![k.topic] = None]
    /\ UNCHANGED <<bus_subscribers, pub>>
    /\ UNCHANGED <<brainVars, workerVars, thoughtVars, mindVars>>

\* The handler raises inside its task: the loop logs "Task exception was never
\* retrieved"; nothing else sees it.
TaskFail(k) ==
    /\ k.st = "running"
    /\ CanStep(k)
    /\ tasks' = tasks (-) SetToBag({k})
    /\ bus_hist' = [bus_hist EXCEPT !.failed = TRUE]
    /\ UNCHANGED <<bus_state, bus_subscribers, pub>>
    /\ UNCHANGED <<brainVars, workerVars, thoughtVars, mindVars>>

\* The same bus, explored for the progress of the publishers.
InitProgress ==
    /\ bus_state = [t \in Topics |-> None]
    /\ bus_subscribers = [t \in Topics |-> <<>>]
    /\ pub = [w \in Publishers |-> IdlePub]
    /\ tasks = EmptyBag
    /\ bus_hist = [written |-> [t \in Topics |-> None],
                   completed |-> [t \in Topics |-> None],
                   calls |-> 0,
                   subs |-> 0,
                   failed |-> FALSE,
                   log |-> <<>>,
                   scope |-> ProgressScope]
    \* the other components are not constructed
    /\ conversation_history = <<>> /\ config = <<>> /\ registry = None
    /\ ollama_no_tools = FALSE
    /\ turn = <<>> /\ turn_seq = 0
    /\ wstate = <<>> /\ wsleep = <<>> /\ wcount = <<>> /\ healer = <<>>
    /\ thoughts = <<>> /\ inserted = 0
    /\ engine = <<>> /\ talk = <<>> /\ now = 0

\* The same bus, explored for the order of the stores, as the program runs
\* it: the sentinel workers publish and no handler is ever subscribed.
InitOrder ==
    /\ bus_state = [t \in Topics |-> None]
    /\ bus_subscribers = [t \in Topics |-> <<>>]
    /\ pub = [w \in Publishers |-> IdlePub]
    /\ tasks = EmptyBag
    /\ bus_hist = [written |-> [t \in Topics |-> None],
                   completed |-> [t \in Topics |-> None],
                   calls |-> 0,
                   subs |-> 0,
                   failed |-> FALSE,
                   log |-> <<>>,
                   scope |-> OrderScope]
    \* the other components are not constructed
    /\ conversation_history = <<>> /\ config = <<>> /\ registry = None
    /\ ollama_no_tools = FALSE
    /\ turn = <<>> /\ turn_seq = 0
    /\ wstate = <<>> /\ wsleep = <<>> /\ wcount = <<>> /\ healer = <<>>
    /\ thoughts = <<>> /\ inserted = 0
    /\ engine = <<>> /\ talk = <<>> /\ now = 0

NextOrder ==
    \/ \E w \in Publishers, t \in Topics, p \in Payloads : PublishSchedule(w, t, p)
    \/ \E w \in Publishers, t \in Topics, p \in Payloads : PublishWrite(w, t, p)
    \/ \E w \in Publishers : PublishReturn(w)
    \/ \E w \in Publishers : PublishClose(w)

\* Publishes and snapshots explored with a reader of get_all_state().
MaxSnapPublishes == 3
MaxSnapshots == 2

SnapshotScope == [calls |-> MaxSnapPublishes, subs |-> 0, topics |-> Topics,
                  payloads |-> Payloads, trace |-> FALSE, order |-> FALSE]

\* The reader (_state_file_sync_loop, get_live_state, the dashboard) has no
\* snapshot yet.
NoSnapshot == [ref |-> "none", state |-> <<>>, taken |-> 0]

InitSnapshot ==
    /\ bus_state = [t \in Topics |-> None]
    /\ bus_subscribers = [t \in Topics |-> <<>>]
    /\ pub = [w \in Publishers |-> IdlePub]
    /\ tasks = EmptyBag
    /\ bus_hist = [written |-> [t \in Topics |-> None],
                   completed |-> [t \in Topics |-> None],
                   calls |-> 0,
                   subs |-> 0,
                   failed |-> FALSE,
                   log |-> <<>>,
                   scope |-> SnapshotScope,
                   snap |-> NoSnapshot]
    \* the other components are not constructed
    /\ conversation_history = <<>> /\ config = <<>> /\ registry = None
    /\ ollama_no_tools = FALSE
    /\ turn = <<>> /\ turn_seq = 0
    /\ wstate = <<>> /\ wsleep = <<>> /\ wcount = <<>> /\ healer = <<>>
    /\ thoughts = <<>> /\ inserted = 0
    /\ engine = <<>> /\ talk = <<>> /\ now = 0

\* a get_all_state that hands out the bus's own dictionary
GetAllStateAlias == [ref |-> "alias", state |-> <<>>]

\* return dict(self._state): a new dictionary with the keys and entries of now
GetAllStateCopy == [ref |-> "copy", state |-> GetAllState]

\* What the holder of the returned dictionary reads in it.
SnapshotView ==
    IF bus_hist.snap.ref = "alias" THEN GetAllState ELSE bus_hist.snap.state

\* state = bus.get_all_state() on a reader's thread; the call takes no lock.
TakeSnapshot ==
    /\ bus_hist.snap.taken < MaxSnapshots
    /\ bus_hist' = [bus_hist EXCEPT !.snap = [ref |-> GetAllStateCopy.ref,
                                              state |-> GetAllStateCopy.state,
                                              taken |-> bus_hist.snap.taken + 1]]
    /\ UNCHANGED <<bus_state, bus_subscribers, pub, tasks>>
    /\ UNCHANGED <<brainVars, workerVars, thoughtVars, mindVars>>

NextSnapshot ==
    \/ \E w \in Publishers, t \in Topics, p \in Payloads : PublishWrite(w, t, p)
    \/ \E w \in Publishers : PublishReturn(w)
    \/ \E w \in Publishers : PublishClose(w)
    \/ TakeSnapshot

NextBus ==
    \/ \E t \in Topics, h \in Handlers : Subscribe(t, h)
    \/ \E t \in Topics, h \in Handlers : Unsubscribe(t, h)
    \/ \E w \in Publishers, t \in Topics, p \in Payloads : PublishWrite(w, t, p)
    \/ \E w \in Publishers : PublishNotify(w)
    \/ \E w \in Publishers : PublishNotifyRaise(w)
    \/ \E w \in Publishers : PublishReturn(w)
    \/ \E w \in Publishers : PublishClose(w)
    \/ \E k \in BagToSet(tasks) : TaskStart(k)
    \/ \E k \in BagToSet(tasks) : TaskFinish(k)
    \/ \E k \in BagToSet(tasks) : TaskFail(k)

(***************************************************************************)
(* Orchestrator: core/brain.py                                             *)
(***************************************************************************)

\* A text is a sequence of tokens; the empty text "" is <<>>.
EmptyText == <<>>
ActionCompleted == <<"Action completed.">>
\* The two working messages of a round, by kind: the assistant note (the
\* response's text, or "(calling tools)") and the user message "Tool results: ...".
CallingTools == <<"(calling tools)">>
ToolResults == <<"Tool results">>
ErrorThinking == <<"Error while thinking">>
ErrorStream == <<"Error">>

\* Execution contexts that call into one Brain: the conversation loop of main.py
\* (stream_and_speak -> think_stream) and the self-healer thread
\* (_fix_with_brain -> think).
Contexts == {"main", "healer"}
ModeOf(c) == IF c = "main" THEN "stream" ELSE "think"

\* Capabilities of the registry and what their executors do when called.
SkillBehaviour == [get_time |-> "text", noop |-> "none", boom |-> "raise"]
SkillNames == DOMAIN SkillBehaviour

\* Largest max_history and max_concurrent_tools explored.
MaxHistoryCfg == 1
MaxToolsCfg == 2
\* Number of turns and of streamed fragments explored.
MaxTurns == 2
MaxChunks == 2

\* What the reasoning backend may answer to one _chat call.
ToolCallLists == {<<>>, <<"get_time">>, <<"boom", "get_time">>, <<"missing", "noop">>}
Responses == [content : {EmptyText, <<"ans">>}, tool_calls : ToolCallLists]
\* The i-th text fragment of a backend stream.
Chunk(i) == <<"fragment", i>>

IdleTurn == [pc |-> "idle", mode |-> None, id |-> 0, messages |-> <<>>,
             response |-> None, iteration |-> 0, tool_results |-> <<>>,
             calls |-> <<>>, resps |-> <<>>, queries |-> 0, requested |-> 0,
             executed |-> 0, final |-> EmptyText,
             out |-> <<>>, err |-> FALSE, stream_err |-> FALSE, completed |-> FALSE,
             asked |-> <<>>, streamed |-> <<>>]

InitBrain ==
    /\ conversation_history = <<>>
    /\ config \in [max_history : 0..MaxHistoryCfg, max_concurrent_tools : 0..MaxToolsCfg]
    /\ registry \in {"present", None}
    /\ turn = [c \in Contexts |-> IF c = "main" THEN [IdleTurn EXCEPT !.pc = "boot"]
                                                ELSE IdleTurn]
    /\ turn_seq = 0
    /\ ollama_no_tools = FALSE
    \* the other components are not constructed
    /\ bus_state = <<>> /\ bus_subscribers = <<>>
    /\ pub = <<>> /\ tasks = <<>> /\ bus_hist = <<>>
    /\ wstate = <<>> /\ wsleep = <<>> /\ wcount = <<>> /\ healer = <<>>
    /\ thoughts = <<>> /\ inserted = 0
    /\ engine = <<>> /\ talk = <<>> /\ now = 0

\* Python's s[-n:] for n >= 0: s[-0:] is s[0:], the whole list.
NegSlice(s, n) ==
    IF n = 0 \/ n >= Len(s) THEN s ELSE SubSeq(s, Len(s) - n + 1, Len(s))

\* text without the fallback
OrTextNoDefault(text, default) == text

\* text or default
OrText(text, default) == IF text = EmptyText THEN default ELSE text

Msg(role, content, id) == [role |-> role, content |-> content, turn |-> id]

\* _build_messages: system prompt + conversation_history[-max_history * 2:]
BuildMessages(history) ==
    <<Msg("system", <<"system">>, 0)>> \o NegSlice(history, config.max_history * 2)

\* _trim_history
TrimHistory(history) ==
    LET max_entries == config.max_history * 2
    IN  IF Len(history) > max_entries THEN NegSlice(history, max_entries) ELSE history

\* SkillRegistry.execute: KeyError for an unknown name, the executor's exception
\* re-raised, otherwise str(result) or "Done."
ExecuteRaises(name) == name \notin SkillNames \/ SkillBehaviour[name] = "raise"
ExecuteOutput(name) == IF SkillBehaviour[name] = "none" THEN "Done." ELSE "text"

\* One iteration of the loop of _execute_tool_calls.
ExecuteOne(name) ==
    IF registry = None
    THEN [tool |-> name, result |-> "No skill registry.", success |-> FALSE]
    ELSE IF ExecuteRaises(name)
         THEN [tool |-> name, result |-> "Error", success |-> FALSE]
         ELSE [tool |-> name, result |-> ExecuteOutput(name), success |-> TRUE]

\* a dispatch loop that gives up at the first failed invocation
RECURSIVE ExecuteToolCallsStopOnFail(_)
ExecuteToolCallsStopOnFail(tool_calls) ==
    IF tool_calls = <<>> THEN <<>>
    ELSE IF ExecuteOne(Head(tool_calls)).success
         THEN <<ExecuteOne(Head(tool_calls))>> \o ExecuteToolCallsStopOnFail(Tail(tool_calls))
         ELSE <<ExecuteOne(Head(tool_calls))>>

\* _execute_tool_calls: the calls in order, one result appended per call
RECURSIVE ExecuteToolCalls(_)
ExecuteToolCalls(tool_calls) ==
    IF tool_calls = <<>> THEN <<>>
    ELSE <<ExecuteOne(Head(tool_calls))>> \o ExecuteToolCalls(Tail(tool_calls))

\* perform_startup_routine: one _chat call, then the summary is appended to the
\* history; any exception is logged and nothing is appended.
StartupRoutine(c, ok) ==
    /\ turn[c].pc = "boot"
    /\ conversation_history' =
         IF ok THEN Append(conversation_history, Msg("assistant", <<"summary">>, 0))
         ELSE conversation_history
    /\ turn' = [turn EXCEPT ![c].pc = "idle"]
    /\ UNCHANGED <<config, registry, turn_seq, ollama_no_tools>>
    /\ UNCHANGED <<busVars, workerVars, thoughtVars, mindVars>>

\* think / think_stream up to the first _chat call: append the user message,
\* build the working message list.
ThinkCall(c) ==
    /\ turn[c].pc = "idle"
    /\ turn_seq < MaxTurns
    /\ turn_seq' = turn_seq + 1
    /\ LET h == Append(conversation_history, Msg("user", <<"input">>, turn_seq + 1))
       IN  /\ conversation_history' = h
           /\ turn' = [turn EXCEPT ![c] =
                  [IdleTurn EXCEPT !.pc = "query", !.mode = ModeOf(c),
                                   !.id = turn_seq + 1, !.messages = BuildMessages(h)]]
    /\ UNCHANGED <<config, registry, ollama_no_tools>>
    /\ UNCHANGED <<busVars, workerVars, thoughtVars, mindVars>>

\* a loop test that allows one round more
LoopContinuesOneMore(r, iteration) ==
    r.tool_calls # <<>> /\ iteration <= config.max_concurrent_tools

\* while response["tool_calls"] and iteration < max_concurrent_tools
LoopContinues(r, iteration) ==
    r.tool_calls # <<>> /\ iteration < config.max_concurrent_tools

\* a think_stream that streams the final answer after invocation rounds too
ChatReturnAlwaysStreams(c, r) ==
    /\ turn[c].pc = "query"
    /\ turn' = [turn EXCEPT
          ![c].response = r,
          ![c].asked = turn[c].messages,
          ![c].resps = Append(@, r.tool_calls # <<>>),
          ![c].queries = @ + 1,
          ![c].requested = @ + Len(r.tool_calls),
          ![c].pc = IF LoopContinues(r, turn[c].iteration) THEN "exec"
                    ELSE IF turn[c].mode = "think" THEN "final"
                    ELSE "stream"]
    /\ UNCHANGED <<conversation_history, config, registry, turn_seq, ollama_no_tools>>
    /\ UNCHANGED <<busVars, workerVars, thoughtVars, mindVars>>

\* self._chat(messages, tools) returns r; the loop condition is evaluated.
ChatReturn(c, r) ==
    /\ turn[c].pc = "query"
    /\ turn' = [turn EXCEPT
          ![c].response = r,
          ![c].asked = turn[c].messages,
          ![c].resps = Append(@, r.tool_calls # <<>>),
          ![c].queries = @ + 1,
          ![c].requested = @ + Len(r.tool_calls),
          ![c].pc = IF LoopContinues(r, turn[c].iteration) THEN "exec"
                    ELSE IF turn[c].mode = "think" THEN "final"
                    ELSE IF turn[c].iteration > 0 THEN "yield"
                    ELSE "stream"]
    /\ UNCHANGED <<conversation_history, config, registry, turn_seq, ollama_no_tools>>
    /\ UNCHANGED <<busVars, workerVars, thoughtVars, mindVars>>

\* self._chat raises: the except branch returns (think) or yields (think_stream)
\* the error text; the history keeps the user message.
ChatRaise(c) ==
    /\ turn[c].pc = "query"
    /\ turn' = [turn EXCEPT
          ![c].queries = @ + 1,
          ![c].err = TRUE,
          ![c].out = Append(@, IF turn[c].mode = "think" THEN ErrorThinking
                               ELSE ErrorStream),
          ![c].response = None,
          ![c].pc = "done"]
    /\ UNCHANGED <<conversation_history, config, registry, turn_seq, ollama_no_tools>>
    /\ UNCHANGED <<busVars, workerVars, thoughtVars, mindVars>>

\* One round of the loop body: execute the calls, append the two working
\* messages; the re-query follows.
ExecRound(c) ==
    /\ turn[c].pc = "exec"
    /\ turn' = [turn EXCEPT
          ![c].iteration = @ + 1,
          ![c].calls = turn[c].response.tool_calls,
          ![c].executed = @ + Len(ExecuteToolCalls(turn[c].response.tool_calls)),
          ![c].tool_results = ExecuteToolCalls(turn[c].response.tool_calls),
          ![c].messages = @ \o <<Msg("assistant", CallingTools, 0),
                                   Msg("user", ToolResults, 0)>>,
          ![c].pc = "query"]
    /\ UNCHANGED <<conversation_history, config, registry, turn_seq, ollama_no_tools>>
    /\ UNCHANGED <<busVars, workerVars, thoughtVars, mindVars>>

\* A message of an invocation round; such messages carry no turn number.
Working(m) == m.turn = 0 /\ m.content \in {CallingTools, ToolResults}

\* an end of turn that copies the working messages of the rounds into the history
CompleteKeepsWorking(c, final) ==
    /\ conversation_history' =
         TrimHistory(Append(conversation_history \o
                              SelectSeq(turn[c].messages, Working),
                            Msg("assistant", final, turn[c].id)))
    /\ UNCHANGED <<config, registry, turn_seq, ollama_no_tools>>

\* End of a turn: append the assistant entry, trim.
Complete(c, final) ==
    /\ conversation_history' =
         TrimHistory(Append(conversation_history, Msg("assistant", final, turn[c].id)))
    /\ UNCHANGED <<config, registry, turn_seq, ollama_no_tools>>

\* think, after the loop: final = content or "Action completed."; return final
ThinkFinal(c) ==
    /\ turn[c].pc = "final"
    /\ LET final == OrText(turn[c].response.content, ActionCompleted)
       IN  /\ Complete(c, final)
           /\ turn' = [turn EXCEPT ![c].final = final, ![c].out = <<final>>,
                                   ![c].completed = TRUE, ![c].pc = "done"]
    /\ UNCHANGED <<busVars, workerVars, thoughtVars, mindVars>>

\* think_stream, tools were used: yield the pre-computed answer
StreamYieldFinal(c) ==
    /\ turn[c].pc = "yield"
    /\ LET final == OrText(turn[c].response.content, ActionCompleted)
       IN  turn' = [turn EXCEPT ![c].final = final, ![c].out = <<final>>,
                                ![c].pc = "finish"]
    /\ UNCHANGED <<conversation_history, config, registry, turn_seq, ollama_no_tools>>
    /\ UNCHANGED <<busVars, workerVars, thoughtVars, mindVars>>

\* a streaming loop that yields a fragment without adding it to final
StreamChunkUnrecorded(c) ==
    /\ turn[c].pc = "stream"
    /\ Len(turn[c].out) < MaxChunks
    /\ LET chunk == Chunk(Len(turn[c].out) + 1)
       IN  turn' = [turn EXCEPT ![c].out = Append(@, <<chunk>>),
                                ![c].streamed = turn[c].messages]
    /\ UNCHANGED <<conversation_history, config, registry, turn_seq, ollama_no_tools>>
    /\ UNCHANGED <<busVars, workerVars, thoughtVars, mindVars>>

\* think_stream, no tools: one fragment of _stream_dispatch(messages) is added
\* to final and yielded.
StreamChunk(c) ==
    /\ turn[c].pc = "stream"
    /\ Len(turn[c].out) < MaxChunks
    /\ LET chunk == Chunk(Len(turn[c].out) + 1)
       IN  turn' = [turn EXCEPT ![c].final = Append(@, chunk),
                                ![c].out = Append(@, <<chunk>>),
                                ![c].streamed = turn[c].messages]
    /\ UNCHANGED <<conversation_history, config, registry, turn_seq, ollama_no_tools>>
    /\ UNCHANGED <<busVars, workerVars, thoughtVars, mindVars>>

\* the backend's stream is exhausted
StreamEnd(c) ==
    /\ turn[c].pc = "stream"
    /\ turn' = [turn EXCEPT ![c].pc = "finish", ![c].streamed = turn[c].messages]
    /\ UNCHANGED <<conversation_history, config, registry, turn_seq, ollama_no_tools>>
    /\ UNCHANGED <<busVars, workerVars, thoughtVars, mindVars>>

\* the streaming call raises (when opened or between fragments):
\* _stream_ollama / _stream_openai / _stream_gemini log it and end the stream.
StreamRaise(c) ==
    /\ turn[c].pc = "stream"
    /\ turn' = [turn EXCEPT ![c].stream_err = TRUE, ![c].pc = "finish",
                            ![c].streamed = turn[c].messages]
    /\ UNCHANGED <<conversation_history, config, registry, turn_seq, ollama_no_tools>>
    /\ UNCHANGED <<busVars, workerVars, thoughtVars, mindVars>>

\* think_stream, after the last yield: append the assistant entry, trim.
StreamFinish(c) ==
    /\ turn[c].pc = "finish"
    /\ Complete(c, turn[c].final)
    /\ turn' = [turn EXCEPT ![c].completed = TRUE, ![c].pc = "done"]
    /\ UNCHANGED <<busVars, workerVars, thoughtVars, mindVars>>

\* The caller has the return value (think) or has exhausted the generator
\* (think_stream); the locals of the call are gone.
Return(c) ==
    /\ turn[c].pc = "done"
    /\ turn' = [turn EXCEPT ![c] = IdleTurn]
    /\ UNCHANGED <<conversation_history, config, registry, turn_seq, ollama_no_tools>>
    /\ UNCHANGED <<busVars, workerVars, thoughtVars, mindVars>>

\* No other context is inside the Brain.
Alone(c) == \A d \in Contexts \ {c} : turn[d].pc \in {"idle", "boot"}

\* Turns one at a time: the single-owner discipline.
NextBrain ==
    \/ \E c \in Contexts, ok \in BOOLEAN : Alone(c) /\ StartupRoutine(c, ok)
    \/ \E c \in Contexts : Alone(c) /\ ThinkCall(c)
    \/ \E c \in Contexts, r \in Responses : Alone(c) /\ ChatReturn(c, r)
    \/ \E c \in Contexts : Alone(c) /\ ChatRaise(c)
    \/ \E c \in Contexts : Alone(c) /\ ExecRound(c)
    \/ \E c \in Contexts : Alone(c) /\ ThinkFinal(c)
    \/ \E c \in Contexts : Alone(c) /\ StreamYieldFinal(c)
    \/ \E c \in Contexts : Alone(c) /\ StreamChunk(c)
    \/ \E c \in Contexts : Alone(c) /\ StreamEnd(c)
    \/ \E c \in Contexts : Alone(c) /\ StreamRaise(c)
    \/ \E c \in Contexts : Alone(c) /\ StreamFinish(c)
    \/ \E c \in Contexts : Alone(c) /\ Return(c)

\* The backend's answers explored with the threads interleaved.
PlainResponses ==
    {r \in Responses : r.tool_calls \in {<<>>, <<"get_time">>} /\ r.content # EmptyText}

\* The threads as run_always_listen starts them: start_self_healer(brain) runs
\* before perform_startup_routine and the conversation loop, and nothing
\* serialises the healer's brain.think with the loop's brain.think_stream.
NextBrainThreads ==
    \/ \E c \in Contexts, ok \in BOOLEAN : StartupRoutine(c, ok)
    \/ \E c \in Contexts : ThinkCall(c)
    \/ \E c \in Contexts, r \in PlainResponses : ChatReturn(c, r)
    \/ \E c \in Contexts : ChatRaise(c)
    \/ \E c \in Contexts : ExecRound(c)
    \/ \E c \in Contexts : ThinkFinal(c)
    \/ \E c \in Contexts : StreamYieldFinal(c)
    \/ \E c \in Contexts : StreamChunk(c)
    \/ \E c \in Contexts : StreamEnd(c)
    \/ \E c \in Contexts : StreamRaise(c)
    \/ \E c \in Contexts : StreamFinish(c)
    \/ \E c \in Contexts : Return(c)

(***************************************************************************)
(* Supervised workers: core/sentinel.py                                    *)
(***************************************************************************)

\* The threads of start_sentinel, in the order it starts them.
WorkerList == <<"sentinel-camera", "sentinel-yolo", "sentinel-system", "sentinel-usb",
                "sentinel-update", "sentinel-thoughts", "sentinel-state-file">>
Workers == {WorkerList[i] : i \in 1..Len(WorkerList)}

\* Loop functions with a return statement (_camera_loop, _yolo_loop: a missing
\* dependency); the others only leave by an exception.
ReturningWorkers == {"sentinel-camera", "sentinel-yolo"}

\* time.sleep(10) in _crash_recovery
RestartDelay == 10

\* Crashes and returns of loop functions explored.
MaxCrashes == 2
MaxReturns == 1

InitWorker ==
    /\ wstate = [w \in Workers |-> "new"]
    /\ wsleep = [w \in Workers |-> 0]
    /\ wcount = [crashes |-> 0, returns |-> 0]
    /\ healer = <<>>
    \* the other components are not constructed
    /\ bus_state = <<>> /\ bus_subscribers = <<>>
    /\ pub = <<>> /\ tasks = <<>> /\ bus_hist = <<>>
    /\ conversation_history = <<>> /\ config = <<>> /\ registry = None
    /\ ollama_no_tools = FALSE
    /\ turn = <<>> /\ turn_seq = 0
    /\ thoughts = <<>> /\ inserted = 0
    /\ engine = <<>> /\ talk = <<>> /\ now = 0

\* start_sentinel: t.start() for the next thread of the list; the thread enters
\* _crash_recovery and calls func(*args).
StartWorker(i) ==
    /\ wstate[WorkerList[i]] = "new"
    /\ \A j \in 1..(i - 1) : wstate[WorkerList[j]] # "new"
    /\ wstate' = [wstate EXCEPT ![WorkerList[i]] = "running"]
    /\ UNCHANGED <<wsleep, wcount>>
    /\ UNCHANGED <<healer, busVars, brainVars, thoughtVars, mindVars>>

\* a supervisor that gives up on a crashed worker
WorkerCrashGivesUp(w) ==
    /\ wstate[w] = "running"
    /\ wcount.crashes < MaxCrashes
    /\ wstate' = [wstate EXCEPT ![w] = "stopped"]
    /\ wsleep' = wsleep
    /\ wcount' = [wcount EXCEPT !.crashes = @ + 1]
    /\ UNCHANGED <<healer, busVars, brainVars, thoughtVars, mindVars>>

\* func(*args) raises: except Exception -> log, time.sleep(10)
WorkerCrash(w) ==
    /\ wstate[w] = "running"
    /\ wcount.crashes < MaxCrashes
    /\ wstate' = [wstate EXCEPT ![w] = "backoff"]
    /\ wsleep' = [wsleep EXCEPT ![w] = RestartDelay]
    /\ wcount' = [wcount EXCEPT !.crashes = @ + 1]
    /\ UNCHANGED <<healer, busVars, brainVars, thoughtVars, mindVars>>

\* time.sleep returns; while True: func(*args) again
WorkerWake(w) ==
    /\ wstate[w] = "backoff"
    /\ wstate' = [wstate EXCEPT ![w] = "running"]
    /\ wsleep' = [wsleep EXCEPT ![w] = 0]
    /\ UNCHANGED wcount
    /\ UNCHANGED <<healer, busVars, brainVars, thoughtVars, mindVars>>

\* func(*args) returns normally: no except branch, while True calls it again
WorkerReturn(w) ==
    /\ wstate[w] = "running"
    /\ w \in ReturningWorkers
    /\ wcount.returns < MaxReturns
    /\ wcount' = [wcount EXCEPT !.returns = @ + 1]
    /\ UNCHANGED <<wstate, wsleep>>
    /\ UNCHANGED <<healer, busVars, brainVars, thoughtVars, mindVars>>

NextWorker ==
    \/ \E i \in 1..Len(WorkerList) : StartWorker(i)
    \/ \E w \in Workers : WorkerCrash(w)
    \/ \E w \in Workers : WorkerWake(w)
    \/ \E w \in Workers : WorkerReturn(w)

(***************************************************************************)
(* Thought buffer: core/thought_engine.py                                  *)
(***************************************************************************)

\* _MAX_THOUGHTS
MAX_THOUGHTS == 100

\* Calls of _add_thought explored, and how many of them come from the except
\* branch of _think_loop (the "Internal error" alert).
MaxInserts == 102
MaxAlerts == 1

\* Scores in tenths: 5 is 0.5.
DefaultScore == 5
AlertScore == 2
ScoreOne == 10

InitThought ==
    /\ thoughts = <<>>
    /\ inserted = 0
    /\ engine = <<>> /\ talk = <<>> /\ now = 0
    \* the other components are not constructed
    /\ bus_state = <<>> /\ bus_subscribers = <<>>
    /\ pub = <<>> /\ tasks = <<>> /\ bus_hist = <<>>
    /\ conversation_history = <<>> /\ config = <<>> /\ registry = None
    /\ ollama_no_tools = FALSE
    /\ turn = <<>> /\ turn_seq = 0
    /\ wstate = <<>> /\ wsleep = <<>> /\ wcount = <<>> /\ healer = <<>>

\* an overflow that drops the newest entries instead of the oldest
PopOverflowNewest(buf) ==
    IF Len(buf) > MAX_THOUGHTS THEN SubSeq(buf, 1, MAX_THOUGHTS) ELSE buf

\* while len(_THOUGHTS) > _MAX_THOUGHTS: _THOUGHTS.pop(0)
RECURSIVE PopOverflow(_)
PopOverflow(buf) == IF Len(buf) > MAX_THOUGHTS THEN PopOverflow(Tail(buf)) ELSE buf

\* The locked section of _add_thought: append, then pop the overflow.
AppendThought(buf, thought) == PopOverflow(Append(buf, thought))

\* The thought dictionary _add_thought builds; n is the position of the call
\* in the order the lock was taken.
Thought(n, category, speak_score) ==
    [n |-> n, category |-> category,
     speak_score |-> Min(speak_score, ScoreOne), spoken |-> FALSE]

\* _add_thought(content, category, speak_score), from _deep_think or from the
\* except branch of _think_loop
AddThought(category, speak_score) ==
    /\ inserted < MaxInserts
    /\ category = "alert" =>
         Cardinality({i \in 1..Len(thoughts) : thoughts[i].category = "alert"}) < MaxAlerts
    /\ inserted' = inserted + 1
    /\ thoughts' = AppendThought(thoughts, Thought(inserted + 1, category, speak_score))
    /\ UNCHANGED <<busVars, brainVars, workerVars, mindVars>>

NextThought ==
    \/ AddThought("observation", DefaultScore)
    \/ AddThought("alert", AlertScore)

(***************************************************************************)
(* Thought cycle: ThoughtEngine._think_loop / _run_thought_cycle           *)
(***************************************************************************)

\* Detection lists the topic sentinel.yolo may hold when a cycle samples it.
Detections == {"nothing", "person"}

\* str(hash(str(detections))): equal lists give equal strings, and no list
\* gives "", the initial _last_context_hash.
ContextHash(d) == <<"hash", d>>
NoHash == <<>>

\* Cycles of _think_loop explored.
MaxCycles == 6

\* What brain._chat gives _deep_think: a text that parses to a thought of more
\* than 5 characters with a category and a score (in tenths), a text of at
\* most 5 characters, or an exception.
AnswerCategories == {"observation", "curiosity"}
AnswerScores == {3, 9}
Answers ==
    [kind : {"thought"}, category : AnswerCategories, speak_score : AnswerScores]
    \cup {[kind |-> k, category |-> None, speak_score |-> 0] : k \in {"short", "raise"}}

\* The cycle in progress or just run: what it sampled and what it did.
NoCycle == [count |-> 0, hash |-> NoHash, prev |-> NoHash, queried |-> 0,
            appended |-> 0, answer |-> None, silent |-> 0]

InitCycle ==
    /\ engine \in [cycle_count : {0}, last_context_hash : {NoHash},
                    brain : {"present", None}, last : {NoCycle}]
    /\ thoughts = <<>>
    /\ inserted = 0
    /\ talk = <<>> /\ now = 0
    \* the other components are not constructed
    /\ bus_state = <<>> /\ bus_subscribers = <<>>
    /\ pub = <<>> /\ tasks = <<>> /\ bus_hist = <<>>
    /\ conversation_history = <<>> /\ config = <<>> /\ registry = None
    /\ ollama_no_tools = FALSE
    /\ turn = <<>> /\ turn_seq = 0
    /\ wstate = <<>> /\ wsleep = <<>> /\ wcount = <<>> /\ healer = <<>>

\* a deduplication without the every-third-cycle override
SkipsCycleNoOverride(ctx_hash, last_hash, count) == ctx_hash = last_hash

\* a deduplication whose override comes every fourth cycle
SkipsCycleEveryFourth(ctx_hash, last_hash, count) == ctx_hash = last_hash /\ count % 4 # 0

\* if ctx_hash == self._last_context_hash and self._cycle_count % 3 != 0: return
SkipsCycle(ctx_hash, last_hash, count) == ctx_hash = last_hash /\ count % 3 # 0

\* One iteration of _think_loop: the counter is incremented, the context is
\* sampled (detections d), and _run_thought_cycle returns early (no brain, or
\* unchanged context) or stores the hash and calls _deep_think, whose single
\* backend call gives answer a (a cycle that returns early asks nothing: one
\* value of a stands for it).
ThinkCycle(d, a) ==
    LET count == engine.cycle_count + 1
        ctx_hash == ContextHash(d)
        \* silent: the cycles in a row, this one included, that asked nothing
        cycle == [count |-> count, hash |-> ctx_hash, prev |-> engine.last.hash,
                  queried |-> 0, appended |-> 0, answer |-> None,
                  silent |-> engine.last.silent + 1]
    IN  /\ engine.cycle_count < MaxCycles
        /\ IF engine.brain = None
           THEN /\ a.kind = "short"
                /\ engine' = [engine EXCEPT !.cycle_count = count, !.last = cycle]
                /\ UNCHANGED <<thoughts, inserted>>
           ELSE IF SkipsCycle(ctx_hash, engine.last_context_hash, count)
           THEN /\ a.kind = "short"
                /\ engine' = [engine EXCEPT !.cycle_count = count, !.last = cycle]
                /\ UNCHANGED <<thoughts, inserted>>
           ELSE IF a.kind = "thought"
           THEN /\ engine' = [engine EXCEPT
                       !.cycle_count = count, !.last_context_hash = ctx_hash,
                       !.last = [cycle EXCEPT !.queried = 1, !.appended = 1,
                                              !.answer = a.kind, !.silent = 0]]
                /\ inserted' = inserted + 1
                /\ thoughts' = AppendThought(thoughts,
                                    Thought(inserted + 1, a.category, a.speak_score))
           ELSE /\ engine' = [engine EXCEPT
                       !.cycle_count = count, !.last_context_hash = ctx_hash,
                       !.last = [cycle EXCEPT !.queried = 1, !.answer = a.kind,
                                              !.silent = 0]]
                /\ UNCHANGED <<thoughts, inserted>>
        /\ UNCHANGED <<talk, now>>
        /\ UNCHANGED <<busVars, brainVars, workerVars>>

NextCycle == \E d \in Detections, a \in Answers : ThinkCycle(d, a)

(***************************************************************************)
(* Autonomous speech: core/free_talk.py and the thought list it reads      *)
(***************************************************************************)

\* time.time() when the controller is constructed, and how far the clock is
\* followed from there; the clock advances by one of ClockSteps seconds.
StartTime == 100
MaxElapsed == 12
ClockSteps == {6, 12}

\* free_talk_min_interval values explored (seconds).
MinIntervals == {2}
\* since_seconds = self.min_interval + 10
WindowExtra == 10
\* speak_score > 0.5, in tenths
SpeakThreshold == 5

\* _add_thought calls and utterances explored.
MaxTalkThoughts == 2
MaxEmits == 2

\* Scores of the thoughts added, in tenths, and the values of
\* random.randint(100, 999) in a thought's id.
TalkScores == {2, 5, 6, 9}
Rands == {1, 2}

\* What the iteration in progress read: when, and the list it got.
NoRead == [at |-> 0, buffer |-> <<>>, eligible |-> <<>>]

InitTalk ==
    /\ talk \in [min_interval : MinIntervals, speaker : {"present"},
                  paused : {FALSE}, user_speaking : {FALSE},
                  last_spoke : {0}, pc : {"top"}, best : {None},
                  read : {NoRead}, emits : {0}]
    /\ now = StartTime
    /\ thoughts = <<>>
    /\ inserted = 0
    /\ engine = <<>>
    \* the other components are not constructed
    /\ bus_state = <<>> /\ bus_subscribers = <<>>
    /\ pub = <<>> /\ tasks = <<>> /\ bus_hist = <<>>
    /\ conversation_history = <<>> /\ config = <<>> /\ registry = None
    /\ ollama_no_tools = FALSE
    /\ turn = <<>> /\ turn_seq = 0
    /\ wstate = <<>> /\ wsleep = <<>> /\ wcount = <<>> /\ healer = <<>>

\* The clock moves on: a thread sleeps or is not scheduled.
Tick(d) ==
    /\ now + d <= StartTime + MaxElapsed
    /\ now' = now + d
    /\ UNCHANGED <<thoughts, inserted, engine, talk>>
    /\ UNCHANGED <<busVars, brainVars, workerVars>>

\* The dictionary _add_thought builds, with its id
\* f"t_{now:%H%M%S}_{random.randint(100, 999)}" and its timestamp_epoch.
StampedThought(n, category, speak_score, r) ==
    [n |-> n, category |-> category,
     speak_score |-> Min(speak_score, ScoreOne), spoken |-> FALSE,
     id |-> <<now, r>>, timestamp_epoch |-> now]

\* _add_thought called by the thought engine thread while the controller runs
AddStampedThought(speak_score, r) ==
    /\ inserted < MaxTalkThoughts
    /\ inserted' = inserted + 1
    /\ thoughts' = AppendThought(thoughts,
                        StampedThought(inserted + 1, "observation", speak_score, r))
    /\ UNCHANGED <<engine, talk, now>>
    /\ UNCHANGED <<busVars, brainVars, workerVars>>

\* a filter that lets the threshold score itself through
SpeakableAtThreshold(t, cutoff) ==
    /\ t.timestamp_epoch > cutoff
    /\ t.speak_score >= SpeakThreshold
    /\ ~t.spoken

\* The filter of get_speakable_thoughts
Speakable(t, cutoff) ==
    /\ t.timestamp_epoch > cutoff
    /\ t.speak_score > SpeakThreshold
    /\ ~t.spoken

\* a filter that forgets the spoken flag
GetSpeakableThoughtsAgain(since_seconds) ==
    SelectSeq(thoughts, LAMBDA t : t.timestamp_epoch > now - since_seconds
                                     /\ t.speak_score > SpeakThreshold)

\* get_speakable_thoughts(since_seconds), under _THOUGHT_LOCK
GetSpeakableThoughts(since_seconds) ==
    SelectSeq(thoughts, LAMBDA t : Speakable(t, now - since_seconds))

\* a choice of the first eligible thought
FirstOf(list) == list[1]

\* max(thoughts, key=speak_score): the first element with the largest score
BestOf(list) ==
    list[CHOOSE i \in 1..Len(list) :
            /\ \A j \in 1..Len(list) : list[j].speak_score <= list[i].speak_score
            /\ \A j \in 1..(i - 1) : list[j].speak_score < list[i].speak_score]

\* mark_thought_spoken(thought_id): the first thought with that id, if any
MarkThoughtSpoken(buf, thought_id) ==
    IF \E i \in 1..Len(buf) : buf[i].id = thought_id
    THEN LET k == CHOOSE i \in 1..Len(buf) :
                     buf[i].id = thought_id /\ \A j \in 1..(i - 1) : buf[j].id # thought_id
         IN  [buf EXCEPT ![k].spoken = TRUE]
    ELSE buf

\* pause(), resume(), notify_user_speaking(), notify_user_done(): the main
\* thread sets a flag
Pause ==
    /\ talk' = [talk EXCEPT !.paused = TRUE]
    /\ UNCHANGED <<thoughts, inserted, engine, now>>
    /\ UNCHANGED <<busVars, brainVars, workerVars>>

Resume ==
    /\ talk' = [talk EXCEPT !.paused = FALSE]
    /\ UNCHANGED <<thoughts, inserted, engine, now>>
    /\ UNCHANGED <<busVars, brainVars, workerVars>>

NotifyUserSpeaking ==
    /\ talk' = [talk EXCEPT !.user_speaking = TRUE]
    /\ UNCHANGED <<thoughts, inserted, engine, now>>
    /\ UNCHANGED <<busVars, brainVars, workerVars>>

NotifyUserDone ==
    /\ talk' = [talk EXCEPT !.user_speaking = FALSE]
    /\ UNCHANGED <<thoughts, inserted, engine, now>>
    /\ UNCHANGED <<busVars, brainVars, workerVars>>

\* a throttle test that lets the loop through at any time
ThrottledNever(last_spoke, min_interval) == FALSE

\* if time.time() - self._last_spoke < self.min_interval
Throttled(last_spoke, min_interval) == now - last_spoke < min_interval

\* _talk_loop, head of an iteration: the flags, then the throttle; an iteration
\* that passes both goes on to read the thoughts (the others sleep and repeat).
TalkCheck ==
    /\ talk.pc = "top"
    /\ talk.emits < MaxEmits
    /\ ~(talk.paused \/ talk.user_speaking)
    /\ ~Throttled(talk.last_spoke, talk.min_interval)
    /\ talk' = [talk EXCEPT !.pc = "read"]
    /\ UNCHANGED <<thoughts, inserted, engine, now>>
    /\ UNCHANGED <<busVars, brainVars, workerVars>>

\* thoughts = get_speakable_thoughts(...); none: sleep and repeat; some:
\* best = max(...)
TalkRead ==
    /\ talk.pc = "read"
    /\ LET list == GetSpeakableThoughts(talk.min_interval + WindowExtra)
       IN  talk' = IF list = <<>>
                   THEN [talk EXCEPT !.pc = "top"]
                   ELSE [talk EXCEPT !.pc = "guard", !.best = BestOf(list),
                                     !.read = [at |-> now, buffer |-> thoughts,
                                               eligible |-> list]]
    /\ UNCHANGED <<thoughts, inserted, engine, now>>
    /\ UNCHANGED <<busVars, brainVars, workerVars>>

\* if self._user_speaking: continue; otherwise the content is logged and the
\* loop reaches "if self.speaker:"
TalkGuard ==
    /\ talk.pc = "guard"
    /\ talk' = IF talk.user_speaking
               THEN [talk EXCEPT !.pc = "top", !.best = None, !.read = NoRead]
               ELSE [talk EXCEPT !.pc = "call"]
    /\ UNCHANGED <<thoughts, inserted, engine, now>>
    /\ UNCHANGED <<busVars, brainVars, workerVars>>

\* if self.speaker: self.speaker.speak_blocking(content) is entered; without
\* a speaker the loop goes straight to the marking.
TalkSpeak ==
    /\ talk.pc = "call"
    /\ talk' = IF talk.speaker = None
               THEN [talk EXCEPT !.pc = "mark"]
               ELSE [talk EXCEPT !.pc = "speaking"]
    /\ UNCHANGED <<thoughts, inserted, engine, now>>
    /\ UNCHANGED <<busVars, brainVars, workerVars>>

\* speak_blocking returns
SpeakReturn ==
    /\ talk.pc = "speaking"
    /\ talk' = [talk EXCEPT !.pc = "mark"]
    /\ UNCHANGED <<thoughts, inserted, engine, now>>
    /\ UNCHANGED <<busVars, brainVars, workerVars>>

\* speak_blocking raises: except Exception logs, sleeps, and the loop repeats
SpeakRaise ==
    /\ talk.pc = "speaking"
    /\ talk' = [talk EXCEPT !.pc = "top", !.best = None, !.read = NoRead]
    /\ UNCHANGED <<thoughts, inserted, engine, now>>
    /\ UNCHANGED <<busVars, brainVars, workerVars>>

\* mark_thought_spoken(best["id"]); self._last_spoke = time.time()
TalkMark ==
    /\ talk.pc = "mark"
    /\ thoughts' = MarkThoughtSpoken(thoughts, talk.best.id)
    /\ talk' = [talk EXCEPT !.pc = "top", !.last_spoke = now, !.emits = @ + 1,
                            !.best = None, !.read = NoRead]
    /\ UNCHANGED <<inserted, engine, now>>
    /\ UNCHANGED <<busVars, brainVars, workerVars>>

NextTalk ==
    \/ \E d \in ClockSteps : Tick(d)
    \/ \E sc \in TalkScores, r \in Rands : AddStampedThought(sc, r)
    \/ Pause
    \/ Resume
    \/ NotifyUserSpeaking
    \/ NotifyUserDone
    \/ TalkCheck
    \/ TalkRead
    \/ TalkGuard
    \/ TalkSpeak
    \/ SpeakReturn
    \/ SpeakRaise
    \/ TalkMark

(***************************************************************************)
(* Capability registry: skills/__init__.py                                 *)
(***************************************************************************)

\* Names a caller registers, and a name nobody registers.
RegNames == {"get_time", "open_app"}
CallNames == RegNames \cup {"nope"}

\* An executor: a plain function or a coroutine function (async def), and
\* what a call of it does: returns a value, returns None, or raises.
Executors ==
    {[kind |-> "sync", does |-> "text"], [kind |-> "sync", does |-> "none"],
     [kind |-> "sync", does |-> "KeyError"],
     [kind |-> "async", does |-> "text"], [kind |-> "async", does |-> "none"],
     [kind |-> "async", does |-> "ValueError"]}

Descriptions == {"d1", "d2"}

\* A parameters argument: a dict that may lack "type" and "properties"
\* (Missing marks an absent key); omitted, it is None, which `or` treats as
\* it treats the empty dict.
Missing == "Missing"
NoSchema == [type |-> Missing, properties |-> Missing]
Schemas ==
    {NoSchema,
     [type |-> Missing, properties |-> "props"],
     [type |-> "object", properties |-> Missing]}

\* params = parameters or {"type": "object", "properties": {}}, then the two
\* keys are filled in when absent
NormaliseSchema(parameters) ==
    LET params == IF parameters = NoSchema
                  THEN [type |-> "object", properties |-> "empty"]
                  ELSE parameters
    IN  [type |-> IF params.type = Missing THEN "object" ELSE params.type,
         properties |-> IF params.properties = Missing THEN "empty" ELSE params.properties]

\* The entry the decorator stores; is_async is inspect.iscoroutinefunction(func).
SkillEntry(func, description, parameters) ==
    [function |-> func, description |-> description,
     parameters |-> NormaliseSchema(parameters), is_async |-> func.kind = "async"]

\* What the modules of the skills package register when discover() imports them.
PackageSkills ==
    [n \in {"get_time"} |-> SkillEntry([kind |-> "sync", does |-> "text"], "d1", NoSchema)]

\* The registrations explored: every executor, both descriptions and every
\* shape of the parameters argument occur.
Registrations ==
    {[func |-> [kind |-> "sync", does |-> "text"], description |-> "d1",
      parameters |-> NoSchema],
     [func |-> [kind |-> "sync", does |-> "none"], description |-> "d2",
      parameters |-> [type |-> Missing, properties |-> "props"]],
     [func |-> [kind |-> "sync", does |-> "KeyError"], description |-> "d1",
      parameters |-> [type |-> "object", properties |-> Missing]],
     [func |-> [kind |-> "async", does |-> "text"], description |-> "d2",
      parameters |-> NoSchema],
     [func |-> [kind |-> "async", does |-> "none"], description |-> "d1",
      parameters |-> [type |-> Missing, properties |-> "props"]],
     [func |-> [kind |-> "async", does |-> "ValueError"], description |-> "d2",
      parameters |-> [type |-> "object", properties |-> Missing]]}

\* Number of registrations of one name explored.
MaxRegs == 2

\* The caller's thread has a running event loop, or has none.
CallerContexts == {"loop", "noloop"}

NoCall == [op |-> None]
NoExecutor == [kind |-> None, does |-> None]
NoEntry == [function |-> NoExecutor]

\* skills: _SKILLS; discovered: SkillRegistry._discovered; regs, prev (the
\* entry the last registration of a name replaced) and last (the last call
\* and its outcome) are kept for the claims only.
InitRegistry ==
    /\ registry = [skills |-> <<>>,
                   discovered |-> FALSE,
                   regs |-> [n \in RegNames |-> 0],
                   prev |-> [n \in RegNames |-> NoEntry],
                   last |-> NoCall]
    \* the other components are not constructed
    /\ bus_state = <<>> /\ bus_subscribers = <<>> /\ pub = <<>>
    /\ tasks = EmptyBag /\ bus_hist = <<>>
    /\ conversation_history = <<>> /\ config = <<>> /\ ollama_no_tools = FALSE
    /\ turn = <<>> /\ turn_seq = 0
    /\ wstate = <<>> /\ wsleep = <<>> /\ wcount = <<>> /\ healer = <<>>
    /\ thoughts = <<>> /\ inserted = 0
    /\ engine = <<>> /\ talk = <<>> /\ now = 0

\* d with d[name] = entry, as the assignment _SKILLS[name] = {...} leaves it
Assign(d, name, entry) ==
    [n \in DOMAIN d \cup {name} |-> IF n = name THEN entry ELSE d[n]]

\* a registration that keeps an entry the name already has (setdefault)
RegisterKeepsFirst(name, func, description, parameters) ==
    /\ registry.regs[name] < MaxRegs
    /\ registry' = [registry EXCEPT
                       !.skills = IF name \in DOMAIN registry.skills THEN @
                                  ELSE Assign(@, name, SkillEntry(func, description, parameters)),
                       !.regs[name] = @ + 1,
                       !.prev[name] = IF name \in DOMAIN registry.skills
                                      THEN registry.skills[name] ELSE NoEntry,
                       !.last = [op |-> "register", name |-> name,
                                 entry |-> SkillEntry(func, description, parameters)]]
    /\ UNCHANGED <<busVars, conversation_history, config, turn, turn_seq, ollama_no_tools>>
    /\ UNCHANGED <<workerVars, thoughtVars, mindVars>>

\* @skill(name, description, parameters) applied to func
Register(name, func, description, parameters) ==
    /\ registry.regs[name] < MaxRegs
    /\ registry' = [registry EXCEPT
                       !.skills = Assign(@, name, SkillEntry(func, description, parameters)),
                       !.regs[name] = @ + 1,
                       !.prev[name] = IF name \in DOMAIN registry.skills
                                      THEN registry.skills[name] ELSE NoEntry,
                       !.last = [op |-> "register", name |-> name,
                                 entry |-> SkillEntry(func, description, parameters)]]
    /\ UNCHANGED <<busVars, conversation_history, config, turn, turn_seq, ollama_no_tools>>
    /\ UNCHANGED <<workerVars, thoughtVars, mindVars>>

\* _SKILLS after discover(): the first call imports the package's modules,
\* whose decorators register their skills; later calls do nothing.
RECURSIVE AssignAll(_, _, _)
AssignAll(d, names, entries) ==
    IF names = {} THEN d
    ELSE LET n == CHOOSE x \in names : TRUE
         IN  AssignAll(Assign(d, n, entries[n]), names \ {n}, entries)

Discovered ==
    IF registry.discovered THEN registry.skills
    ELSE AssignAll(registry.skills, DOMAIN PackageSkills, PackageSkills)

\* list_skills()
ListSkills ==
    /\ registry' = [registry EXCEPT
                       !.skills = Discovered,
                       !.discovered = TRUE,
                       !.last = [op |-> "list",
                                 listed |-> [n \in DOMAIN Discovered |->
                                               [description |-> Discovered[n].description,
                                                parameters |-> Discovered[n].parameters]]]]
    /\ UNCHANGED <<busVars, conversation_history, config, turn, turn_seq, ollama_no_tools>>
    /\ UNCHANGED <<workerVars, thoughtVars, mindVars>>

Returned(text) == [kind |-> "return", value |-> text]
Raised(type, text) == [kind |-> "raise", type |-> type, text |-> text]

\* an unknown name answered with the fallback string
UnknownSkillDone(name) == Returned([str |-> "Done."])

\* raise KeyError(f"Unknown skill: '{name}'. Available: ...")
UnknownSkill(name) == Raised("KeyError", "Unknown skill")

\* return str(result) if result is not None else "Done."
CoerceResult(result) == IF result = None THEN [str |-> "Done."] ELSE [str |-> result]

\* What a call of the executor gives: its value (None when it returns
\* nothing), or the exception it raises.
Call(func) ==
    CASE func.does = "text" -> Returned("text")
      [] func.does = "none" -> Returned(None)
      [] OTHER -> Raised(func.does, "executor")

\* lines 111-127 of execute(): the three ways the executor is run.  With a
\* running loop an async executor is run by asyncio.run in a pool thread;
\* result is the future run_in_executor returns, which nobody awaits.
Dispatch(entry, ctx) ==
    IF entry.is_async /\ ctx = "loop"
    THEN Returned(CoerceResult("Future pending"))
    ELSE IF Call(entry.function).kind = "raise"
         THEN Call(entry.function)
         ELSE Returned(CoerceResult(Call(entry.function).value))

\* execute(name, arguments) called on a thread with or without a running loop
Execute(name, ctx) ==
    /\ registry' = [registry EXCEPT
                       !.skills = Discovered,
                       !.discovered = TRUE,
                       !.last = [op |-> "execute", name |-> name, ctx |-> ctx,
                                 known |-> name \in DOMAIN Discovered,
                                 ran |-> IF name \in DOMAIN Discovered
                                         THEN Discovered[name].function ELSE NoExecutor,
                                 outcome |-> IF name \in DOMAIN Discovered
                                             THEN Dispatch(Discovered[name], ctx)
                                             ELSE UnknownSkill(name)]]
    /\ UNCHANGED <<busVars, conversation_history, config, turn, turn_seq, ollama_no_tools>>
    /\ UNCHANGED <<workerVars, thoughtVars, mindVars>>

NextRegistry ==
    \/ \E name \in RegNames, r \in Registrations :
          Register(name, r.func, r.description, r.parameters)
    \/ ListSkills
    \/ \E name \in CallNames, ctx \in CallerContexts : Execute(name, ctx)

(***************************************************************************)
(* Emulated tool calling: Brain._chat_ollama                               *)
(***************************************************************************)

\* The tools argument of _chat: the registry's definitions, or [] (the
\* startup routine, autonomous_think, a Brain without a registry).
ToolLists == {"tools", "empty"}

\* What client.chat does with a request: it answers, it refuses the request
\* because the model "does not support tools", which it only does to a
\* request that carries tools, or it fails in another way.
ChatAnswers == {"ok", "no tool support", "error"}
AnswersTo(request) ==
    IF request.tools THEN ChatAnswers ELSE ChatAnswers \ {"no tool support"}

\* Number of _chat_ollama calls explored.
MaxChats == 3

NoRequest == [tools |-> FALSE, injected |-> FALSE]

IdleChat == [pc |-> "idle", tools |-> "empty", request |-> NoRequest,
             sent |-> 0, flagged |-> FALSE, result |-> None]

InitChat ==
    /\ ollama_no_tools = FALSE
    /\ turn = [c \in Contexts |-> IdleChat]
    /\ turn_seq = 0
    /\ conversation_history = <<>> /\ config = <<>> /\ registry = None
    \* the other components are not constructed
    /\ bus_state = <<>> /\ bus_subscribers = <<>>
    /\ pub = <<>> /\ tasks = <<>> /\ bus_hist = <<>>
    /\ wstate = <<>> /\ wsleep = <<>> /\ wcount = <<>> /\ healer = <<>>
    /\ thoughts = <<>> /\ inserted = 0
    /\ engine = <<>> /\ talk = <<>> /\ now = 0

\* use_native_tools = tools and not self._ollama_no_tools
UseNativeTools(tools) == tools # "empty" /\ ~ollama_no_tools

\* lines 143-152: kwargs["tools"] = tools, or the tools written into the
\* system prompt, or neither for an empty list
BuildRequest(tools) ==
    [tools |-> UseNativeTools(tools),
     injected |-> ~UseNativeTools(tools) /\ tools # "empty"]

\* _chat_ollama(messages, tools) up to the call of the client
ChatOllama(c, tools) ==
    /\ turn[c].pc = "idle"
    /\ turn_seq < MaxChats
    /\ turn_seq' = turn_seq + 1
    /\ turn' = [turn EXCEPT ![c] = [IdleChat EXCEPT !.pc = "call", !.tools = tools,
                                                    !.request = BuildRequest(tools)]]
    /\ UNCHANGED <<conversation_history, config, registry, ollama_no_tools>>
    /\ UNCHANGED <<busVars, workerVars, thoughtVars, mindVars>>

\* response = self._client.chat(**kwargs) and the except branch: the request
\* goes to the backend; on "does not support tools" with tools given the flag
\* is set and the request rebuilt without tools and with the injected prompt;
\* any other exception is raised to the caller.  flagged: the flag as it was
\* when the request went out.
ClientChat(c, answer) ==
    /\ turn[c].pc = "call"
    /\ answer \in AnswersTo(turn[c].request)
    /\ ollama_no_tools' = (ollama_no_tools \/ answer = "no tool support")
    /\ turn' = [turn EXCEPT
          ![c].sent = @ + 1,
          ![c].flagged = ollama_no_tools,
          ![c].request = IF answer = "no tool support"
                         THEN [tools |-> FALSE, injected |-> TRUE] ELSE @,
          ![c].result = IF answer = "error" THEN "raised" ELSE None,
          ![c].pc = CASE answer = "ok" -> "parse"
                      [] answer = "no tool support" -> "retry"
                      [] OTHER -> "done"]
    /\ UNCHANGED <<conversation_history, config, registry, turn_seq>>
    /\ UNCHANGED <<busVars, workerVars, thoughtVars, mindVars>>

\* line 162: the second self._client.chat(**kwargs), inside the except branch:
\* an exception of it is raised to the caller.
RetryChat(c, answer) ==
    /\ turn[c].pc = "retry"
    /\ answer \in AnswersTo(turn[c].request)
    /\ turn' = [turn EXCEPT
          ![c].sent = @ + 1,
          ![c].flagged = ollama_no_tools,
          ![c].result = IF answer = "error" THEN "raised" ELSE None,
          ![c].pc = IF answer = "ok" THEN "parse" ELSE "done"]
    /\ UNCHANGED <<conversation_history, config, registry, turn_seq, ollama_no_tools>>
    /\ UNCHANGED <<busVars, workerVars, thoughtVars, mindVars>>

\* lines 166-185: the calls of the message, or without them, with tools given
\* and the flag set, the calls parsed out of the text
ParseAnswer(c, native) ==
    /\ turn[c].pc = "parse"
    /\ native => turn[c].request.tools
    /\ turn' = [turn EXCEPT
          ![c].result = IF native THEN "native calls"
                        ELSE IF turn[c].tools # "empty" /\ ollama_no_tools
                             THEN "parsed from text" ELSE "text",
          ![c].pc = "done"]
    /\ UNCHANGED <<conversation_history, config, registry, turn_seq, ollama_no_tools>>
    /\ UNCHANGED <<busVars, workerVars, thoughtVars, mindVars>>

\* _chat_ollama returns or raises
ChatDone(c) ==
    /\ turn[c].pc = "done"
    /\ turn' = [turn EXCEPT ![c] = IdleChat]
    /\ UNCHANGED <<conversation_history, config, registry, turn_seq, ollama_no_tools>>
    /\ UNCHANGED <<busVars, workerVars, thoughtVars, mindVars>>

\* The main thread (think_stream, the startup routine) and the self-healer
\* thread (think) call _chat on the same Brain, and nothing serialises them.
NextChat ==
    \/ \E c \in Contexts, tools \in ToolLists : ChatOllama(c, tools)
    \/ \E c \in Contexts, answer \in ChatAnswers : ClientChat(c, answer)
    \/ \E c \in Contexts, answer \in ChatAnswers : RetryChat(c, answer)
    \/ \E c \in Contexts, native \in BOOLEAN : ParseAnswer(c, native)
    \/ \E c \in Contexts : ChatDone(c)

(***************************************************************************)
(* The answer of a thought cycle: ThoughtEngine._deep_think                *)
(***************************************************************************)

\* The keys of THOUGHT_CATEGORIES
ThoughtCategories == {"observation", "analysis", "opinion", "plan", "curiosity",
                      "environmental", "reflection", "alert"}

\* The lines an answer is made of, stripped.  label: what the line starts
\* with in upper case ("text": none of the three labels); token: what follows
\* the colon, stripped and for CATEGORY in lower case (a number for
\* SPEAK_SCORE is in field number, in tenths); chars: the length of the line,
\* and for a THOUGHT line the length of what follows the colon.
AnswerLines ==
    {[label |-> "CATEGORY", token |-> t, number |-> 0, chars |-> 9 + 2]
        : t \in {"curiosity", "musing"}}
    \cup {[label |-> "SPEAK_SCORE", token |-> "number", number |-> n, chars |-> 12 + 3]
        : n \in {-3, 7, 15}}
    \cup {[label |-> "SPEAK_SCORE", token |-> "high", number |-> 0, chars |-> 12 + 4]}
    \cup {[label |-> "THOUGHT", token |-> "words", number |-> 0, chars |-> n]
        : n \in {0, 5, 6}}
    \cup {[label |-> "text", token |-> "words", number |-> 0, chars |-> n]
        : n \in {2, 20}}

\* Lines of one answer, and calls of _deep_think, explored.
MaxLines == 2
MaxThinks == 1

\* The answers of the backend: content.split("\n"), "" being no line.
Contents == UNION {[1..n -> AnswerLines] : n \in 0..MaxLines}

\* len(content.strip()): the lines and the newlines between them
RECURSIVE ContentLen(_)
ContentLen(content) ==
    IF content = <<>> THEN 0
    ELSE IF Len(content) = 1 THEN content[1].chars
    ELSE content[1].chars + 1 + ContentLen(Tail(content))

\* float(...) of a SPEAK_SCORE line raises ValueError
FloatRaises(line) == line.token # "number"

\* a loop body that takes the category token as it is
ParseLineAnyCategory(acc, line) ==
    CASE line.label = "CATEGORY" -> [acc EXCEPT !.category = line.token]
      [] line.label = "SPEAK_SCORE" ->
            IF FloatRaises(line) THEN acc ELSE [acc EXCEPT !.speak_score = line.number]
      [] line.label = "THOUGHT" -> [acc EXCEPT !.chars = line.chars]
      [] OTHER -> acc

\* The body of `for line in content.split("\n")`
ParseLine(acc, line) ==
    CASE line.label = "CATEGORY" ->
            IF line.token \in ThoughtCategories
            THEN [acc EXCEPT !.category = line.token] ELSE acc
      [] line.label = "SPEAK_SCORE" ->
            IF FloatRaises(line) THEN acc ELSE [acc EXCEPT !.speak_score = line.number]
      [] line.label = "THOUGHT" -> [acc EXCEPT !.chars = line.chars]
      [] OTHER -> acc

RECURSIVE ParseLines(_, _)
ParseLines(acc, content) ==
    IF content = <<>> THEN acc
    ELSE ParseLines(ParseLine(acc, Head(content)), Tail(content))

\* lines 233-249: the defaults, then the loop over the lines; chars is
\* len(thought_text)
ParseAnswerText(content) ==
    ParseLines([category |-> "observation", speak_score |-> DefaultScore,
                chars |-> ContentLen(content)], content)

\* if thought_text and len(thought_text) > 5
KeepsThought(parsed) == parsed.chars # 0 /\ parsed.chars > 5

NoAnswer == [content |-> <<>>, returned |-> FALSE, appended |-> 0]

InitDeepThink ==
    /\ engine = [cycle_count |-> 0, brain |-> "present", last |-> NoAnswer]
    /\ thoughts = <<>>
    /\ inserted = 0
    /\ talk = <<>> /\ now = 0
    \* the other components are not constructed
    /\ bus_state = <<>> /\ bus_subscribers = <<>>
    /\ pub = <<>> /\ tasks = <<>> /\ bus_hist = <<>>
    /\ conversation_history = <<>> /\ config = <<>> /\ registry = None
    /\ ollama_no_tools = FALSE
    /\ turn = <<>> /\ turn_seq = 0
    /\ wstate = <<>> /\ wsleep = <<>> /\ wcount = <<>> /\ healer = <<>>

\* _deep_think(context) whose backend call returns content
DeepThink(content) ==
    LET parsed == ParseAnswerText(content)
    IN  /\ engine.cycle_count < MaxThinks
        /\ IF KeepsThought(parsed)
           THEN /\ thoughts' = AppendThought(thoughts,
                                   Thought(inserted + 1, parsed.category, parsed.speak_score))
                /\ inserted' = inserted + 1
           ELSE UNCHANGED <<thoughts, inserted>>
        /\ engine' = [engine EXCEPT
               !.cycle_count = @ + 1,
               !.last = [content |-> content, returned |-> TRUE,
                         appended |-> IF KeepsThought(parsed) THEN 1 ELSE 0]]
        /\ UNCHANGED <<talk, now>>
        /\ UNCHANGED <<busVars, brainVars, workerVars>>

\* _deep_think(context) whose backend call raises: the warning is logged
DeepThinkRaise ==
    /\ engine.cycle_count < MaxThinks
    /\ engine' = [engine EXCEPT !.cycle_count = @ + 1, !.last = NoAnswer]
    /\ UNCHANGED <<thoughts, inserted, talk, now>>
    /\ UNCHANGED <<busVars, brainVars, workerVars>>

NextDeepThink ==
    \/ \E content \in Contents : DeepThink(content)
    \/ DeepThinkRaise

(***************************************************************************)
(* Live state in the prompt: Brain._build_messages                         *)
(***************************************************************************)

\* yolo["detections"][:10]
SummaryCap == 10

\* Largest number of detections before the last one explored.
MaxCups == 10
\* Turns explored.
MaxEchoTurns == 2

\* A detection as _yolo_loop publishes it (object, confidence, bbox, center)
\* and one that has the object only.
Detection(object, center) == [object |-> object, center |-> center]

\* The lists of detections explored: n cups, then nothing, or a person with
\* or without its centre.
Cups(n) == [i \in 1..n |-> Detection("cup", TRUE)]
DetectionLists ==
    {Cups(n) : n \in 0..MaxCups}
    \cup {Cups(n) \o <<Detection("person", c)>> : n \in 0..MaxCups, c \in BOOLEAN}

\* get_state(topic) of a topic nobody published: None
NoPayload == [present |-> FALSE, detections |-> <<>>]

InitInject ==
    /\ bus_state = [t \in Topics |-> NoPayload]
    /\ turn = [c \in Contexts |-> [pc |-> "idle", seen |-> NoPayload,
                                   out |-> [section |-> FALSE, count |-> 0, objects |-> <<>>]]]
    /\ turn_seq = 0
    /\ conversation_history = <<>> /\ config = <<>> /\ registry = None
    /\ ollama_no_tools = FALSE
    \* the other components are not constructed
    /\ bus_subscribers = <<>>
    /\ pub = <<>> /\ tasks = <<>> /\ bus_hist = <<>>
    /\ wstate = <<>> /\ wsleep = <<>> /\ wcount = <<>> /\ healer = <<>>
    /\ thoughts = <<>> /\ inserted = 0
    /\ engine = <<>> /\ talk = <<>> /\ now = 0

\* _yolo_loop's publish of a scan, as the bus stores it: self._state[topic] = data
PublishYolo(detections) ==
    /\ bus_state' = [bus_state EXCEPT
                        !["sentinel.yolo"] = [present |-> TRUE, detections |-> detections]]
    /\ UNCHANGED <<bus_subscribers, pub, tasks, bus_hist>>
    /\ UNCHANGED <<brainVars, workerVars, thoughtVars, mindVars>>

\* The detections the summary is made of.
Summarised(detections) == SubSeq(detections, 1, Min(Len(detections), SummaryCap))

\* d['center'] of a detection without the key: KeyError, inside the try
SummaryRaises(detections) ==
    \E i \in 1..Len(Summarised(detections)) : ~detections[i].center

NoSection == [section |-> FALSE, count |-> 0, objects |-> <<>>]

\* lines 339-370: the "LIVE SENSOR DATA" section of the system message, as
\* far as sentinel.yolo makes it: the number of detections and the objects of
\* the first ten; nothing for no detections, and nothing when the try block
\* raises.
LiveSensorData(yolo) ==
    IF ~yolo.present \/ yolo.detections = <<>> THEN NoSection
    ELSE IF SummaryRaises(yolo.detections) THEN NoSection
    ELSE [section |-> TRUE, count |-> Len(yolo.detections),
          objects |-> [i \in 1..Len(Summarised(yolo.detections)) |->
                          yolo.detections[i].object]]

\* One turn with a backend that asks for no call and answers with the state
\* text it was sent: think / think_stream build the messages once, query,
\* and give the answer back.
ThinkEcho(c) ==
    /\ turn_seq < MaxEchoTurns
    /\ turn_seq' = turn_seq + 1
    /\ turn' = [turn EXCEPT ![c] = [pc |-> "done", seen |-> bus_state["sentinel.yolo"],
                                    out |-> LiveSensorData(bus_state["sentinel.yolo"])]]
    /\ UNCHANGED <<conversation_history, config, registry, ollama_no_tools>>
    /\ UNCHANGED <<busVars, workerVars, thoughtVars, mindVars>>

NextInject ==
    \/ \E detections \in DetectionLists : PublishYolo(detections)
    \/ \E c \in Contexts : ThinkEcho(c)

(***************************************************************************)
(* Resilience monitor: core/self_heal.py                                   *)
(***************************************************************************)

\* err_key = f"{problem['type']}:{problem.get('error', '')[:60]}"
Signatures == {"ollama_down:Cannot connect to Ollama", "permission_error:PermissionError"}

\* What _detect_problems may return in one pass, as the keys of its problems.
ProblemLists == UNION {[1..n -> Signatures] : n \in 0..2}

\* if time.time() - last_attempt < 300
CooldownSeconds == 300
\* self._check_interval
CheckInterval == 30
\* How long _attempt_fix may take, in seconds.
FixSeconds == {0, 270}
\* How _attempt_fix ends: it fixes, it does not, or it raises.
FixOutcomes == {"auto-fixed", "unfixed", "raised"}

\* time.time() when the healer starts (seconds since the epoch), and the
\* seconds of running explored.
HealStart == 1000
MaxHealElapsed == 330

InitHeal ==
    /\ healer = [cooldown |-> [k \in Signatures |-> 0],
                 pc |-> "detect",
                 problems |-> <<>>,
                 pass |-> <<>>,
                 starts |-> [k \in Signatures |-> <<>>]]
    /\ now = HealStart
    /\ wstate = <<>> /\ wsleep = <<>> /\ wcount = <<>>
    \* the other components are not constructed
    /\ bus_state = <<>> /\ bus_subscribers = <<>>
    /\ pub = <<>> /\ tasks = <<>> /\ bus_hist = <<>>
    /\ conversation_history = <<>> /\ config = <<>> /\ registry = None
    /\ ollama_no_tools = FALSE
    /\ turn = <<>> /\ turn_seq = 0
    /\ thoughts = <<>> /\ inserted = 0
    /\ engine = <<>> /\ talk = <<>>

\* problems = self._detect_problems()
DetectProblems(problems) ==
    /\ healer.pc = "detect"
    /\ healer' = [healer EXCEPT !.pc = "pass", !.problems = problems, !.pass = <<>>]
    /\ UNCHANGED <<wstate, wsleep, wcount, engine, talk, now>>
    /\ UNCHANGED <<busVars, brainVars, thoughtVars>>

\* a cooldown of one check interval
UnderCooldownShort(err_key) == now - healer.cooldown[err_key] < CheckInterval

\* time.time() - self._cooldown.get(err_key, 0) < 300
UnderCooldown(err_key) == now - healer.cooldown[err_key] < CooldownSeconds

\* One iteration of `for problem in problems`: the key under cooldown is
\* passed over; otherwise the time is noted and _attempt_fix runs, for d
\* seconds, and its exception, if any, is logged.  starts: the times at which
\* the attempts for a key began; pass: what this pass did with each problem.
HealProblem(d, outcome) ==
    LET err_key == Head(healer.problems)
    IN  /\ healer.pc = "pass"
        /\ healer.problems # <<>>
        /\ IF UnderCooldown(err_key)
           THEN /\ d = 0 /\ outcome = "unfixed"
                /\ healer' = [healer EXCEPT
                       !.problems = Tail(@),
                       !.pass = Append(@, [key |-> err_key, attempt |-> "none"])]
                /\ now' = now
           ELSE /\ now + d <= HealStart + MaxHealElapsed
                /\ healer' = [healer EXCEPT
                       !.cooldown[err_key] = now,
                       !.starts[err_key] = Append(@, now),
                       !.problems = Tail(@),
                       !.pass = Append(@, [key |-> err_key, attempt |-> outcome])]
                /\ now' = now + d
        /\ UNCHANGED <<wstate, wsleep, wcount, engine, talk>>
        /\ UNCHANGED <<busVars, brainVars, thoughtVars>>

\* the end of the for loop, then time.sleep(self._check_interval)
HealSleep ==
    /\ healer.pc = "pass"
    /\ healer.problems = <<>>
    /\ now + CheckInterval <= HealStart + MaxHealElapsed
    /\ now' = now + CheckInterval
    /\ healer' = [healer EXCEPT !.pc = "detect"]
    /\ UNCHANGED <<wstate, wsleep, wcount, engine, talk>>
    /\ UNCHANGED <<busVars, brainVars, thoughtVars>>

NextHeal ==
    \/ \E problems \in ProblemLists : DetectProblems(problems)
    \/ \E d \in FixSeconds, outcome \in FixOutcomes : HealProblem(d, outcome)
    \/ HealSleep

(***************************************************************************)
(* The always-listen loop: main.py run_always_listen, with a scheduler     *)
(***************************************************************************)

\* What listener.listen() returns: nothing, fewer than 3 characters, speech
\* without "hey max", speech with the wake word and a phrase of the
\* assistant itself, an exit command, a command.
Heard == {"none", "noise", "no_wake", "echo", "exit", "command"}
\* What a dashboard chat message holds; the text is "[DASHBOARD] " + msg, so
\* it is never empty, never short and needs no wake word.
Typed == {"echo", "exit", "command"}
\* Iterations of the loop explored.
MaxListens == 5
\* idle_count >= 3
IdleLimit == 3

InitListen ==
    /\ talk = [paused |-> FALSE, user_speaking |-> FALSE]
    /\ turn = [pc |-> "top", text |-> "none", idle_count |-> 0, listens |-> 0,
               pauses |-> 0, resumes |-> 0, turns |-> 0]
    /\ turn_seq = 0
    \* the other components are not constructed
    /\ bus_state = <<>> /\ bus_subscribers = <<>>
    /\ pub = <<>> /\ tasks = <<>> /\ bus_hist = <<>>
    /\ conversation_history = <<>> /\ config = <<>> /\ registry = None
    /\ ollama_no_tools = FALSE
    /\ wstate = <<>> /\ wsleep = <<>> /\ wcount = <<>> /\ healer = <<>>
    /\ thoughts = <<>> /\ inserted = 0
    /\ engine = <<>> /\ now = 0

\* The filters between the pause and the turn: noise, wake word, self-echo
\* continue; an exit command breaks; anything else is handled.
AfterFilters(text) ==
    IF text \in {"noise", "no_wake", "echo"} THEN "top"
    ELSE IF text = "exit" THEN "exited"
    ELSE "turn"

\* The iteration from the received text on: "idle_count = 0; if free_talk:
\* free_talk.pause()", then the filters.
Received(text) ==
    /\ talk' = [talk EXCEPT !.user_speaking = FALSE, !.paused = TRUE]
    /\ turn' = [turn EXCEPT !.pc = AfterFilters(text), !.text = text,
                            !.idle_count = 0, !.pauses = @ + 1,
                            !.listens = @ + 1]

\* Top of an iteration with a new dashboard message: no listening.
DashboardInput(text) ==
    /\ turn.pc = "top"
    /\ turn.listens < MaxListens
    /\ Received(text)
    /\ UNCHANGED <<conversation_history, config, registry, turn_seq, ollama_no_tools>>
    /\ UNCHANGED <<busVars, workerVars, thoughtVars, engine, now>>

\* Top of an iteration without one: notify_user_speaking(), listener.listen()
ListenBegin ==
    /\ turn.pc = "top"
    /\ turn.listens < MaxListens
    /\ talk' = [talk EXCEPT !.user_speaking = TRUE]
    /\ turn' = [turn EXCEPT !.pc = "listening"]
    /\ UNCHANGED <<conversation_history, config, registry, turn_seq, ollama_no_tools>>
    /\ UNCHANGED <<busVars, workerVars, thoughtVars, engine, now>>

\* listen() returns: notify_user_done(); silence counts towards the
\* autonomous prompt, which is handled without a pause; text is handled as
\* received.
ListenEnd(text) ==
    /\ turn.pc = "listening"
    /\ IF text = "none"
       THEN /\ talk' = [talk EXCEPT !.user_speaking = FALSE]
            /\ turn' = IF turn.idle_count + 1 >= IdleLimit
                       THEN [turn EXCEPT !.pc = "turn", !.text = "system",
                                         !.idle_count = 0, !.listens = @ + 1]
                       ELSE [turn EXCEPT !.pc = "top", !.text = "none",
                                         !.idle_count = @ + 1, !.listens = @ + 1]
       ELSE Received(text)
    /\ UNCHANGED <<conversation_history, config, registry, turn_seq, ollama_no_tools>>
    /\ UNCHANGED <<busVars, workerVars, thoughtVars, engine, now>>

\* stream_and_speak, wait_until_done, sleep: then free_talk.resume()
TurnEnd ==
    /\ turn.pc = "turn"
    /\ talk' = [talk EXCEPT !.paused = FALSE]
    /\ turn' = [turn EXCEPT !.pc = "top", !.resumes = @ + 1, !.turns = @ + 1]
    /\ UNCHANGED <<conversation_history, config, registry, turn_seq, ollama_no_tools>>
    /\ UNCHANGED <<busVars, workerVars, thoughtVars, engine, now>>

NextListen ==
    \/ \E text \in Typed : DashboardInput(text)
    \/ ListenBegin
    \/ \E text \in Heard : ListenEnd(text)
    \/ TurnEnd

SpecListen == InitListen /\ [][NextListen]_vars

(***************************************************************************)
(* start() and stop() of a background loop: ThoughtEngine (thought_engine  *)
(* .py) and FreeTalkController (free_talk.py) share the code modelled here *)
(***************************************************************************)

\* The two classes, and the start() calls explored on one instance.
LoopKinds == {"thought-engine", "free-talk"}
MaxStarts == 3
MaxLoopCycles == 2

\* A constructed instance: not running, no thread. A thread, once started, is
\* in time.sleep (the initial wait or the wait between iterations), inside
\* the body of the while loop, or ended.
InitLifecycle ==
    /\ engine \in [kind : LoopKinds, running : {FALSE}, thread : {0},
                    threads : {<<>>}, caller : {"idle"}, starts : {0},
                    noops : {0}]
    \* the other components are not constructed
    /\ bus_state = <<>> /\ bus_subscribers = <<>>
    /\ pub = <<>> /\ tasks = <<>> /\ bus_hist = <<>>
    /\ conversation_history = <<>> /\ config = <<>> /\ registry = None
    /\ ollama_no_tools = FALSE
    /\ turn = <<>> /\ turn_seq = 0
    /\ wstate = <<>> /\ wsleep = <<>> /\ wcount = <<>> /\ healer = <<>>
    /\ thoughts = <<>> /\ inserted = 0
    /\ talk = <<>> /\ now = 0

\* threading.Thread.is_alive()
IsAlive(t) == engine.threads[t].pc # "ended"

\* start(): "if self._running: return"; otherwise the flag is set and a new
\* thread is created and started; it begins in its initial time.sleep.
Start ==
    /\ engine.caller = "idle"
    /\ IF engine.running
       THEN /\ engine.noops < MaxStarts
            /\ engine' = [engine EXCEPT !.noops = @ + 1]
       ELSE /\ engine.starts < MaxStarts
            /\ engine' = [engine EXCEPT
                  !.running = TRUE,
                  !.threads = Append(@, [pc |-> "sleep", cycles |-> 0]),
                  !.thread = Len(engine.threads) + 1,
                  !.starts = @ + 1]
    /\ UNCHANGED <<busVars, brainVars, workerVars, thoughtVars, talk, now>>

\* stop(): the flag is cleared; a live thread is joined for up to 5 seconds.
Stop ==
    /\ engine.caller = "idle"
    /\ engine' = [engine EXCEPT
          !.running = FALSE,
          !.caller = IF engine.thread # 0 /\ IsAlive(engine.thread)
                     THEN "join" ELSE "idle"]
    /\ UNCHANGED <<busVars, brainVars, workerVars, thoughtVars, talk, now>>

\* join(timeout=5) returns because the thread has ended
JoinReturn ==
    /\ engine.caller = "join"
    /\ ~IsAlive(engine.thread)
    /\ engine' = [engine EXCEPT !.caller = "idle"]
    /\ UNCHANGED <<busVars, brainVars, workerVars, thoughtVars, talk, now>>

\* join(timeout=5) returns after 5 seconds: the thread is still in a
\* time.sleep (20 seconds between thought cycles, 10 seconds before the
\* first scheduler iteration) or in a call of its loop body.
JoinTimeout ==
    /\ engine.caller = "join"
    /\ IsAlive(engine.thread)
    /\ engine' = [engine EXCEPT !.caller = "idle"]
    /\ UNCHANGED <<busVars, brainVars, workerVars, thoughtVars, talk, now>>

\* time.sleep returns in thread t and "while self._running" is evaluated
LoopTest(t) ==
    /\ engine.threads[t].pc = "sleep"
    /\ engine.running => engine.threads[t].cycles < MaxLoopCycles
    /\ engine' = [engine EXCEPT !.threads[t].pc =
                     IF engine.running THEN "body" ELSE "ended"]
    /\ UNCHANGED <<busVars, brainVars, workerVars, thoughtVars, talk, now>>

\* the body of the loop ends in thread t, which goes to sleep again
LoopBody(t) ==
    /\ engine.threads[t].pc = "body"
    /\ engine' = [engine EXCEPT !.threads[t].pc = "sleep",
                                !.threads[t].cycles = @ + 1]
    /\ UNCHANGED <<busVars, brainVars, workerVars, thoughtVars, talk, now>>

NextLifecycle ==
    \/ Start
    \/ Stop
    \/ JoinReturn
    \/ JoinTimeout
    \/ \E t \in 1..MaxStarts : t <= Len(engine.threads) /\ LoopTest(t)
    \/ \E t \in 1..MaxStarts : t <= Len(engine.threads) /\ LoopBody(t)

SpecLifecycle == InitLifecycle /\ [][NextLifecycle]_vars

SpecBus == InitBus /\ [][NextBus]_vars

SpecHeal == InitHeal /\ [][NextHeal]_vars

SpecInject == InitInject /\ [][NextInject]_vars

SpecDeepThink == InitDeepThink /\ [][NextDeepThink]_vars

SpecChat == InitChat /\ [][NextChat]_vars

SpecDelivery == InitDelivery /\ [][NextBus]_vars

SpecOrder == InitOrder /\ [][NextOrder]_vars

SpecSnapshot == InitSnapshot /\ [][NextSnapshot]_vars

SpecRegistry == InitRegistry /\ [][NextRegistry]_vars

\* The thread that executes publish() keeps executing it: the loop over the
\* subscribers and the return, and under asyncio.run the first step of each
\* task of the temporary loop and the closing of that loop.  Nothing is
\* assumed of the handler tasks of the running loop.
SpecProgress ==
    /\ InitProgress /\ [][NextBus]_vars
    /\ \A w \in Publishers :
          /\ WF_vars(PublishNotify(w) \/ PublishNotifyRaise(w) \/ PublishReturn(w))
          /\ WF_vars(PublishClose(w)
                     \/ \E k \in BagToSet(tasks) : k.owner = w /\ pub[w].pc = "drain" /\ TaskStart(k))

SpecBrain == InitBrain /\ [][NextBrain]_vars

SpecBrainThreads == InitBrain /\ [][NextBrainThreads]_vars

\* time.sleep(10) returns: a worker in its backoff is eventually woken.
SpecWorker ==
    /\ InitWorker
    /\ [][NextWorker]_vars
    /\ \A w \in Workers : WF_vars(WorkerWake(w))

SpecThought == InitThought /\ [][NextThought]_vars

SpecCycle == InitCycle /\ [][NextCycle]_vars

SpecTalk == InitTalk /\ [][NextTalk]_vars

(***************************************************************************)
(* Claims                                                                  *)
(***************************************************************************)

NoPublishInFlight == \A w \in Publishers : pub[w].pc = "idle"

\* C1 (as stated): a topic never published reads absent, and once publish(T, P)
\* has returned every get_state(T) returns P until the next publish to T has
\* returned.
C1_ReadsLastCompletedPublish ==
    \A t \in Topics :
        /\ bus_hist.written[t] = None => GetState(t) = None
        /\ bus_hist.completed[t] # None => GetState(t) = bus_hist.completed[t]

\* C1 (amended): a topic never published reads absent, and get_state(T)
\* returns the payload of the publish to T that stored its payload last; the
\* payload is readable from that store on, before publish returns.
C1_ReadsLastStoredPublish ==
    \A t \in Topics :
        /\ bus_hist.written[t] = None => GetState(t) = None
        /\ bus_hist.written[t] # None => GetState(t) = bus_hist.written[t]

\* C1 witness: a topic whose second publish has stored p2 and not yet returned,
\* while the last returned publish to it carried p1, next to a topic never
\* published.
C1_Witness ==
    \E t, u \in Topics :
        /\ bus_hist.completed[t] = "p1" /\ bus_hist.written[t] = "p2"
        /\ GetState(t) = "p2"
        /\ \E w \in Publishers : pub[w].pc = "notify" /\ pub[w].topic = t
        /\ bus_hist.written[u] = None /\ GetState(u) = None

\* C2: once the publishes have returned, get_all_state() holds exactly the
\* topics published, each with the payload stored last (for a topic published
\* once: that publish's payload), whatever the handler tasks are doing.
C2_GetAllStateExact ==
    NoPublishInFlight =>
        /\ DOMAIN GetAllState = {t \in Topics : bus_hist.completed[t] # None}
        /\ \A t \in DOMAIN GetAllState : GetAllState[t] = bus_hist.written[t]
        /\ \A t \in DOMAIN GetAllState :
              bus_hist.calls = Cardinality(DOMAIN GetAllState)
                  => GetAllState[t] = bus_hist.completed[t]

\* C2 witness: two publishes to distinct topics have returned and the handler
\* task created by one of them has failed.
C2_Witness ==
    /\ NoPublishInFlight
    /\ bus_hist.calls = 2
    /\ \A t \in Topics : bus_hist.completed[t] # None
    /\ DOMAIN GetAllState = Topics
    /\ bus_hist.failed

\* A think() call that has returned without a backend exception.
ThinkReturned(c) ==
    turn[c].pc = "done" /\ turn[c].mode = "think" /\ ~turn[c].err

\* The rounds of a returned turn against the backend's responses: every
\* response but the last requested a capability, one round ran per such
\* response, never more than max_concurrent_tools rounds, and the loop stopped
\* short of the cap only at a response that requested nothing.
RoundsBounded(c) ==
    LET t == turn[c]
        cap == config.max_concurrent_tools
    IN  /\ t.iteration <= cap
        /\ Len(t.resps) = t.iteration + 1
        /\ \A i \in 1..t.iteration : t.resps[i]
        /\ Last(t.resps) => t.iteration = cap
        /\ t.iteration < cap => ~Last(t.resps)

\* C3 (as stated): with a backend requesting a capability on responses 1..k,
\* think() runs exactly min(k, max_concurrent_tools) rounds and returns the text
\* of the last response.
C3_LoopBoundedReturnsText ==
    \A c \in Contexts : ThinkReturned(c) =>
        /\ RoundsBounded(c)
        /\ turn[c].out = <<turn[c].response.content>>

\* C3 (amended): with a backend requesting a capability on responses 1..k,
\* think() runs exactly min(k, max_concurrent_tools) rounds and returns the text
\* of the last response, or "Action completed." when that text is empty.
C3_LoopBoundedReturnsTextOrDefault ==
    \A c \in Contexts : ThinkReturned(c) =>
        /\ RoundsBounded(c)
        /\ turn[c].out = <<IF turn[c].response.content = EmptyText
                           THEN ActionCompleted ELSE turn[c].response.content>>

\* C3 witness: a think() turn with k = 1 < max_concurrent_tools = 2 has
\* returned after one round and two responses, the second with an empty text.
C3_Witness ==
    \E c \in Contexts :
        /\ ThinkReturned(c)
        /\ config.max_concurrent_tools = 2
        /\ turn[c].iteration = 1
        /\ turn[c].resps = <<TRUE, FALSE>>
        /\ turn[c].response.content = EmptyText
        /\ turn[c].out = <<ActionCompleted>>

\* A think() call that returned with the cap exhausted: the last response
\* still requests invocations.
CapExhausted(c) ==
    ThinkReturned(c) /\ turn[c].response.tool_calls # <<>>

\* C4 (as stated): on cap exhaustion the turn returns the last response's
\* text, that response's invocations are not executed, and the backend was
\* queried max_concurrent_tools + 1 times.
C4_CapExhaustionReturnsText ==
    \A c \in Contexts : CapExhausted(c) =>
        /\ turn[c].out = <<turn[c].response.content>>
        /\ turn[c].executed = turn[c].requested - Len(turn[c].response.tool_calls)
        /\ turn[c].queries = config.max_concurrent_tools + 1

\* C4 (amended): on cap exhaustion the turn returns the last response's text,
\* or "Action completed." when that response carries no text; that response's
\* invocations are not executed, and the backend was queried
\* max_concurrent_tools + 1 times.
C4_CapExhaustionReturnsTextOrDefault ==
    \A c \in Contexts : CapExhausted(c) =>
        /\ turn[c].response.content # EmptyText
              => turn[c].out = <<turn[c].response.content>>
        /\ turn[c].response.content = EmptyText => turn[c].out = <<ActionCompleted>>
        /\ turn[c].final = turn[c].out[1]
        /\ Last(conversation_history).content = turn[c].out[1]
        /\ turn[c].executed = turn[c].requested - Len(turn[c].response.tool_calls)
        /\ turn[c].queries = config.max_concurrent_tools + 1

\* C4 witness: a think() turn has returned after max_concurrent_tools = 2
\* rounds; the third response requested two invocations that were not run and
\* carried no text.
C4_Witness ==
    \E c \in Contexts :
        /\ CapExhausted(c)
        /\ config.max_concurrent_tools = 2 /\ turn[c].iteration = 2
        /\ turn[c].queries = 3
        /\ Len(turn[c].response.tool_calls) = 2
        /\ turn[c].executed = turn[c].requested - 2
        /\ turn[c].response.content = EmptyText
        /\ turn[c].out = <<ActionCompleted>>

\* C5: a round produces one result per requested invocation, in the requested
\* order; an invocation that throws, names an unknown capability or finds no
\* registry gives success = false, the later invocations still get their
\* results, and the turn goes on to the next backend query.
C5_FailureIsolation ==
    [][\A c \in Contexts : turn[c].pc = "exec" =>
          LET req == turn[c].response.tool_calls
              res == turn'[c].tool_results
          IN  /\ Len(res) = Len(req)
              /\ \A i \in 1..Len(req) :
                    /\ res[i].tool = req[i]
                    /\ res[i].success =
                          (/\ registry # None
                           /\ req[i] \in SkillNames
                           /\ SkillBehaviour[req[i]] # "raise")
              /\ turn'[c].pc = "query"
              /\ ~turn'[c].err
              /\ turn'[c].iteration = turn[c].iteration + 1]_vars

\* C5 witness: a round of two invocations whose first one threw has produced
\* two results, the second one successful, and the turn is at its re-query.
C5_Witness ==
    \E c \in Contexts :
        /\ turn[c].pc = "query" /\ turn[c].iteration > 0
        /\ turn[c].calls = <<"boom", "get_time">>
        /\ Len(turn[c].tool_results) = 2
        /\ ~turn[c].tool_results[1].success
        /\ turn[c].tool_results[2].success

\* C6: whenever a backend call throws during a turn (a query or the streaming
\* of the answer), the caller receives exactly one response, the error text,
\* and the history keeps the user message and gains no assistant entry.
C6_BackendFailureSingleErrorText ==
    \A c \in Contexts :
        (turn[c].pc = "done" /\ (turn[c].err \/ turn[c].stream_err)) =>
            /\ turn[c].out \in {<<ErrorThinking>>, <<ErrorStream>>}
            /\ \E i \in 1..Len(conversation_history) :
                  /\ conversation_history[i].role = "user"
                  /\ conversation_history[i].turn = turn[c].id

\* C7: when a turn completes, the history is the most recent
\* max_history * 2 entries (or all of them, if fewer) of the history with the
\* turn's assistant entry appended, in their order.
C7_TrimmedAfterEveryTurn ==
    [][\A c \in Contexts :
          (turn[c].pc \in {"final", "finish"} /\ turn'[c].pc = "done") =>
              LET full == Append(conversation_history,
                                 Msg("assistant", turn'[c].final, turn[c].id))
                  kept == conversation_history'
              IN  /\ Len(kept) <= config.max_history * 2
                  /\ Len(kept) <= Len(full)
                  /\ kept = SubSeq(full, Len(full) - Len(kept) + 1, Len(full))]_vars

\* C8: no two execution contexts are inside a turn of the same Brain at once,
\* and the entries of one turn (its user message and its assistant answer) are
\* adjacent in the history.
C8_SingleOwnerHistory ==
    /\ Cardinality({c \in Contexts : turn[c].pc \notin {"idle", "boot"}}) <= 1
    /\ \A i, j \in 1..Len(conversation_history) :
          (/\ i < j
           /\ conversation_history[i].turn # 0
           /\ conversation_history[i].turn = conversation_history[j].turn) => j = i + 1

\* C9: a started worker is running or in its backoff and has no other state;
\* a crash puts it, and no other worker, into a backoff of the fixed 10 s
\* delay; a backoff ends only by the worker running again; and whatever the
\* number of crashes, a worker in backoff is eventually running again.
C9_WorkersAlwaysRestart ==
    /\ [](\A w \in Workers : wstate[w] \in {"new", "running", "backoff"})
    /\ [][\A w \in Workers :
            /\ (wstate[w] = "running" /\ wstate'[w] # "running") =>
                  /\ wstate'[w] = "backoff"
                  /\ wsleep'[w] = RestartDelay
                  /\ \A v \in Workers \ {w} : wstate'[v] = wstate[v]
            /\ (wstate[w] = "backoff" /\ wstate'[w] # "backoff") =>
                  wstate'[w] = "running"
            /\ wstate[w] # "new" => wstate'[w] # "new"]_vars
    /\ \A w \in Workers : (wstate[w] = "backoff") ~> (wstate[w] = "running")

\* C9 witness: every worker is running, after as many crashes as explored
\* and with a worker still running beside one that is just backing off.
C9_Witness ==
    /\ wcount.crashes = MaxCrashes
    /\ \E w, v \in Workers :
          /\ wstate[w] = "backoff" /\ wsleep[w] = RestartDelay
          /\ wstate[v] = "running"

\* C10: the buffer never holds more than 100 entries, and it holds exactly
\* the last min(n, 100) of the n thoughts inserted, in insertion order.
C10_BoundedFifo ==
    /\ Len(thoughts) <= MAX_THOUGHTS
    /\ Len(thoughts) = Min(inserted, MAX_THOUGHTS)
    /\ \A i \in 1..Len(thoughts) : thoughts[i].n = inserted - Len(thoughts) + i

\* C10 witness: 102 thoughts were inserted; the buffer holds the 100
\* thoughts numbered 3 to 102.
C10_Witness ==
    /\ inserted = MAX_THOUGHTS + 2
    /\ Len(thoughts) = MAX_THOUGHTS
    /\ thoughts[1].n = 3
    /\ thoughts[MAX_THOUGHTS].n = MAX_THOUGHTS + 2

\* The cycle just run sampled the fingerprint of the cycle before it.
UnchangedCycle == engine.last.count > 1 /\ engine.last.hash = engine.last.prev

HasChosen == talk.pc \in {"guard", "call", "speaking", "mark"}

\* The thoughts of the buffer as it was read that pass the eligibility filter
\* at the time of the read.
EligibleAtRead ==
    {t \in {talk.read.buffer[i] : i \in 1..Len(talk.read.buffer)} :
        /\ t.timestamp_epoch > talk.read.at - (talk.min_interval + WindowExtra)
        /\ t.speak_score > SpeakThreshold
        /\ ~t.spoken}

\* C12: the thought the scheduler chose, and passes to speak_blocking, was in
\* the buffer with its spoken flag unset when the buffer was read, and its
\* flag is still unset while it is being spoken.
C12_NeverSelectsSpoken ==
    HasChosen =>
        /\ \E i \in 1..Len(talk.read.buffer) :
              talk.read.buffer[i].n = talk.best.n /\ ~talk.read.buffer[i].spoken
        /\ ~talk.best.spoken
        /\ \A i \in 1..Len(thoughts) : thoughts[i].n = talk.best.n => ~thoughts[i].spoken

\* C12 witness: a thought is being spoken while the buffer holds a recent
\* thought of a higher score that was spoken before.
C12_Witness ==
    /\ talk.pc = "speaking"
    /\ \E i \in 1..Len(thoughts) :
          /\ thoughts[i].spoken
          /\ thoughts[i].speak_score > talk.best.speak_score
          /\ thoughts[i].timestamp_epoch > talk.read.at - (talk.min_interval + WindowExtra)

\* C13: every selection is made at least min_interval seconds after the timer
\* was last reset, the timer is reset only at the end of an emission, to the
\* time of that moment, and two resets are at least min_interval seconds apart.
C13_Throttle ==
    /\ [](HasChosen => talk.read.at - talk.last_spoke >= talk.min_interval)
    /\ [][/\ talk'.last_spoke # talk.last_spoke =>
                /\ talk.pc = "mark" /\ talk'.emits = talk.emits + 1
                /\ talk'.last_spoke = now
                /\ talk'.last_spoke - talk.last_spoke >= talk.min_interval
          /\ talk'.emits # talk.emits => talk'.last_spoke = now]_vars

\* C13 witness: a second utterance is being spoken, chosen 6 seconds after the
\* end of the first, with min_interval = 2.
C13_Witness ==
    /\ talk.pc = "speaking"
    /\ talk.emits = 1
    /\ talk.min_interval = 2
    /\ talk.last_spoke >= StartTime
    /\ talk.read.at - talk.last_spoke = 6

\* C14: the thought chosen is one of the thoughts eligible when the buffer was
\* read, and no eligible thought has a larger speak_score.
C14_SelectionIsArgmax ==
    HasChosen =>
        /\ \E t \in EligibleAtRead : t.n = talk.best.n
        /\ \A t \in EligibleAtRead : talk.best.speak_score >= t.speak_score

\* C14 witness: two thoughts of different scores were eligible, the one of the
\* larger score was read second, and it is the one being spoken.
C14_Witness ==
    /\ talk.pc = "speaking"
    /\ Len(talk.read.eligible) = 2
    /\ talk.read.eligible[1].speak_score < talk.read.eligible[2].speak_score
    /\ talk.best.n = talk.read.eligible[2].n

\* C15: speak_blocking is entered only while neither the paused flag nor the
\* user-speaking flag is set.
C15_NoSpeechWhileSuppressed ==
    [][(talk.pc = "call" /\ talk'.pc = "speaking") =>
          ~talk.paused /\ ~talk.user_speaking]_vars

\* C16: when speak_blocking has returned, the chosen thought, and no other, is
\* marked spoken and the timer is set to the current time; marking a thought a
\* second time changes nothing; when speak_blocking raises, the buffer and the
\* timer stay as they are.
C16_MarkAndReset ==
    /\ [][/\ (talk.pc = "mark" /\ talk'.pc = "top") =>
                /\ Len(thoughts') = Len(thoughts)
                /\ \A i \in 1..Len(thoughts) :
                      IF thoughts[i].n = talk.best.n
                      THEN thoughts'[i] = [thoughts[i] EXCEPT !.spoken = TRUE]
                      ELSE thoughts'[i] = thoughts[i]
                /\ talk'.last_spoke = now
          /\ (talk.pc = "speaking" /\ talk'.pc = "top") =>
                thoughts' = thoughts /\ talk'.last_spoke = talk.last_spoke]_vars
    /\ [](\A i \in 1..Len(thoughts) :
             /\ MarkThoughtSpoken(MarkThoughtSpoken(thoughts, thoughts[i].id), thoughts[i].id)
                    = MarkThoughtSpoken(thoughts, thoughts[i].id)
             /\ thoughts[i].spoken => MarkThoughtSpoken(thoughts, thoughts[i].id) = thoughts)

\* The elements of a sequence.
Range(seq) == {seq[i] : i \in 1..Len(seq)}

\* This step is one iteration of w's loop over the subscribers.
Iterates(w) == pub[w].pc = "notify" /\ pub'[w].pc = "notify" /\ pub'[w].i = pub[w].i + 1

\* This step is the return of w's publish() call.
Returns(w) == pub[w].pc = "notify" /\ pub'[w].pc # "notify"

\* C17: when a handler raises, at its call inside publish() or later inside
\* its task, the stored state and the subscriber lists stay as they are and
\* no publisher is moved; a publish() call ends only by returning after it has
\* walked the topic's whole list, one handler after the other; the stored
\* state changes only when a publish() call stores its payload, and a
\* subscriber list only in a step that touches neither tasks nor publishers.
C17_HandlerFailureIsolated ==
    [][/\ \A w \in Publishers :
             (pub[w].pc = "notify" /\ pub'[w] # pub[w]) =>
                 \/ Iterates(w)
                 \/ Returns(w) /\ pub[w].i >= Len(bus_subscribers[pub[w].topic])
       /\ \A w \in Publishers :
             (Iterates(w) /\ tasks' = tasks) =>
                 /\ bus_state' = bus_state /\ bus_subscribers' = bus_subscribers
                 /\ \A v \in Publishers \ {w} : pub'[v] = pub[v]
       /\ (\E k \in BagToSet(tasks) : CopiesIn(k, tasks') < CopiesIn(k, tasks)) =>
             /\ bus_state' = bus_state /\ bus_subscribers' = bus_subscribers
             /\ \A w \in Publishers : pub'[w] = pub[w] \/ pub[w].pc = "drain"
       /\ bus_state' # bus_state =>
             \E w \in Publishers : pub[w].pc = "idle" /\ pub'[w].pc = "notify"
       /\ bus_subscribers' # bus_subscribers => tasks' = tasks /\ pub' = pub]_vars

\* C17 witness: a publish() call has invoked two different handlers; the
\* first raised at its call and has no task, the second has its task; both
\* are still subscribed and the topic's state is the published payload.
C17_Witness ==
    \E w \in Publishers :
        /\ pub[w].pc = "notify"
        /\ Len(pub[w].invoked) = 2
        /\ pub[w].invoked[1] # pub[w].invoked[2]
        /\ BagToSet(tasks) = {Task(pub[w].invoked[2], pub[w].topic, pub[w].data, "pending", w)}
        /\ BagCardinality(tasks) = 1
        /\ Range(bus_subscribers[pub[w].topic]) = Range(pub[w].invoked)
        /\ GetState(pub[w].topic) = pub[w].data

\* C18: when a publish() call returns it has invoked the handlers that were
\* registered for the topic when it started, each once and in that order, and
\* the tasks it made are never cancelled when asyncio.run closes its loop.
C18_EveryHandlerRuns ==
    [][\A w \in Publishers :
          /\ Returns(w) => pub[w].invoked = pub[w].snap
          /\ (pub[w].pc = "drain" /\ pub'[w].pc = "idle") =>
                \A k \in BagToSet(tasks) : k.owner # w]_vars

\* C19: a publish() call that has stored the payload returns whatever the
\* handler tasks do, the payload is readable from the moment it is stored
\* (until a later publish to the topic replaces it), and every publisher gets
\* back to where it can publish again, with no assumption that any handler
\* task of the running loop ever finishes or even starts.
C19_PublisherNeverWaits ==
    /\ \A w \in Publishers : (pub[w].pc = "notify") ~> (pub[w].pc # "notify")
    /\ \A w \in Publishers : (pub[w].pc # "idle") ~> (pub[w].pc = "idle")
    /\ [](\A w \in Publishers : pub[w].pc = "notify" =>
             GetState(pub[w].topic) = bus_hist.written[pub[w].topic])
    /\ [][\A w \in Publishers : (pub[w].pc = "idle" /\ pub'[w].pc = "notify") =>
             bus_state'[pub'[w].topic] = pub'[w].data]_vars

\* C19 witness: the publisher of the running loop is inside a publish to one
\* topic while a handler task of its earlier publish to the other topic is
\* still running.
C19_Witness ==
    /\ pub["w1"].pc = "notify"
    /\ \E k \in BagToSet(tasks) :
          k.owner = "w1" /\ k.st = "running" /\ k.topic # pub["w1"].topic

StoresOf(w, t) == SelectSeq(bus_hist.log, LAMBDA e : e.w = w /\ e.topic = t)

\* C21: the payloads one worker publishes to one topic are stored, and so can
\* be read by get_state, in the order of its _publish_sync calls: a payload is
\* never stored after a payload the same worker published to the topic later;
\* and the topic's state is the payload stored last.
C21_PublishOrderPerWorker ==
    /\ \A w \in Publishers, t \in Topics :
          \A i, j \in 1..Len(StoresOf(w, t)) :
              i < j => StoresOf(w, t)[i].k < StoresOf(w, t)[j].k
    /\ \A t \in Topics :
          LET stores == SelectSeq(bus_hist.log, LAMBDA e : e.topic = t)
          IN  (stores # <<>>) => GetState(t) # None

\* C21 witness: the worker on the running loop scheduled two publishes to one
\* topic before the loop started the first, a worker thread published to the
\* same topic in between the two stores, and both stores were made.
C21_Witness ==
    \E t \in Topics :
        /\ Len(StoresOf("w1", t)) = 2
        /\ Len(StoresOf("w2", t)) = 1
        /\ \E i \in 1..Len(bus_hist.log) :
              /\ bus_hist.log[i].w = "w2" /\ bus_hist.log[i].topic = t
              /\ 1 < i /\ i < Len(bus_hist.log)
              /\ bus_hist.log[i].k > StoresOf("w1", t)[2].k

\* What list_skills() shows of an entry.
Listed(entry) == [description |-> entry.description, parameters |-> entry.parameters]

\* C22: a registration replaces the name's entry by the one it makes, with
\* the schema completed by its defaults, and leaves every other name's entry
\* as it is; list_skills() shows for every name the description and schema of
\* its entry, and execute runs the executor of the name's entry.
C22_LastWriteWins ==
    /\ [](registry.last.op = "register" =>
             /\ registry.skills[registry.last.name] = registry.last.entry
             /\ registry.last.entry.description \in Descriptions
             /\ registry.last.entry.parameters.type = "object"
             /\ registry.last.entry.parameters.properties \in {"empty", "props"})
    /\ [][registry'.last.op = "register" =>
             /\ DOMAIN registry'.skills = DOMAIN registry.skills \cup {registry'.last.name}
             /\ \A m \in DOMAIN registry.skills \ {registry'.last.name} :
                   registry'.skills[m] = registry.skills[m]]_vars
    /\ [](registry.last.op = "list" =>
             /\ DOMAIN registry.last.listed = DOMAIN registry.skills
             /\ \A n \in DOMAIN registry.skills :
                   registry.last.listed[n] = Listed(registry.skills[n]))
    /\ []((registry.last.op = "execute" /\ registry.last.known) =>
             registry.last.ran = registry.skills[registry.last.name].function)

\* C22 witness: open_app was registered twice, the second time with another
\* executor, description and schema; list_skills() shows the second
\* description and schema and leaves get_time's entry as it was registered.
C22_Witness ==
    /\ registry.last.op = "list"
    /\ registry.regs["open_app"] = 2 /\ registry.regs["get_time"] = 1
    /\ registry.prev["open_app"] # NoEntry
    /\ registry.prev["open_app"].function # registry.skills["open_app"].function
    /\ registry.prev["open_app"].description = "d1"
    /\ registry.last.listed["open_app"] =
           [description |-> "d2", parameters |-> [type |-> "object", properties |-> "props"]]
    /\ registry.last.listed["get_time"].description = "d2"

\* The last call was execute(name, ...) of a name that is not registered.
ExecutedUnknown(r) == r.last.op = "execute" /\ ~r.last.known

\* The last call was execute(name, ...) of a registered name.
ExecutedKnown(r) == r.last.op = "execute" /\ r.last.known

\* C23 as stated: execute of an unregistered name raises KeyError, runs no
\* executor and leaves the registry as it was, and execute of a registered
\* name never ends in a KeyError.
C23_UnknownNameKeyError ==
    [][/\ ExecutedUnknown(registry') =>
             /\ registry'.last.outcome.kind = "raise"
             /\ registry'.last.outcome.type = "KeyError"
             /\ registry'.last.ran = NoExecutor
             /\ registry'.skills = registry.skills
       /\ ExecutedKnown(registry') =>
             ~(/\ registry'.last.outcome.kind = "raise"
               /\ registry'.last.outcome.type = "KeyError")]_vars

\* C23 amended: execute of an unregistered name raises the KeyError whose
\* message is "Unknown skill: ..." and runs no executor; the call changes the
\* registry by the discovery of the package's skills only, and not at all
\* once discovery has been done.  Execute of a registered name never raises
\* the error with that message; it raises a KeyError when its executor does.
C23_UnknownNameKeyErrorAfterDiscovery ==
    [][/\ ExecutedUnknown(registry') =>
             /\ registry'.last.outcome = Raised("KeyError", "Unknown skill")
             /\ registry'.last.ran = NoExecutor
             /\ registry'.skills = Discovered
             /\ registry.discovered => registry'.skills = registry.skills
             /\ \A n \in DOMAIN registry.skills \ DOMAIN PackageSkills :
                   n \in DOMAIN registry'.skills /\ registry'.skills[n] = registry.skills[n]
       /\ ExecutedKnown(registry') =>
             /\ registry'.last.outcome # Raised("KeyError", "Unknown skill")
             /\ (/\ registry'.last.outcome.kind = "raise"
                 /\ registry'.last.outcome.type = "KeyError")
                => /\ registry'.last.ran.does = "KeyError"
                   /\ registry'.last.outcome.text = "executor"]_vars

\* C23 witness: with open_app registered and discovery done, execute("nope")
\* has raised the unknown-skill KeyError.
C23_Witness ==
    /\ ExecutedUnknown(registry)
    /\ registry.last.name = "nope"
    /\ registry.last.outcome = Raised("KeyError", "Unknown skill")
    /\ DOMAIN registry.skills = {"get_time", "open_app"}
    /\ registry.skills["open_app"].function.does = "KeyError"

\* What the caller of execute() is to see of an executor: its exception, or
\* its result as text, "Done." for no result.
Transparent(func) ==
    IF Call(func).kind = "raise" THEN Call(func)
    ELSE Returned(CoerceResult(Call(func).value))

\* C24: execute of a registered name gives the caller the executor's result
\* as text, "Done." when the executor returns nothing, and the executor's
\* exception when it raises one, for a sync and for an async executor, with
\* and without a running event loop on the calling thread.
C24_BridgesSyncAsync ==
    ExecutedKnown(registry) => registry.last.outcome = Transparent(registry.last.ran)

\* The fragments 1..n of the backend stream, as think_stream yields them.
Fragments(n) == [i \in 1..n |-> <<Chunk(i)>>]

\* The text the fragments 1..n make when added up.
Joined(n) == [i \in 1..n |-> Chunk(i)]

\* The call of context c has left the decision loop without an exception.
LoopLeft(c) == turn[c].pc \in {"final", "yield", "stream", "finish", "done"} /\ ~turn[c].err

\* C25: think_stream leaves the decision loop as think does, after at most
\* max_concurrent_tools rounds and one query more than rounds, on an answer
\* that asks for no call or with the rounds used up.  After at least one
\* round it never streams: it yields one fragment, the last answer's text
\* or "Action completed.".  After no round it yields the fragments of the
\* backend stream one by one in their order, and the final text is their sum.
C25_StreamAfterSameLoop ==
    /\ [](\A c \in Contexts : LoopLeft(c) =>
             /\ turn[c].iteration <= config.max_concurrent_tools
             /\ turn[c].queries = turn[c].iteration + 1
             /\ turn[c].pc \in {"final", "yield", "stream"} =>
                   ~LoopContinues(turn[c].response, turn[c].iteration)
             /\ turn[c].pc = "final" <=> turn[c].mode = "think" /\ turn[c].pc # "done")
    /\ [](\A c \in Contexts : (LoopLeft(c) /\ turn[c].mode = "stream") =>
             /\ turn[c].pc = "yield" => turn[c].iteration > 0 /\ turn[c].out = <<>>
             /\ turn[c].pc = "stream" => turn[c].iteration = 0
             /\ (turn[c].iteration > 0 /\ turn[c].pc \in {"finish", "done"}) =>
                   /\ turn[c].out = <<turn[c].final>>
                   /\ turn[c].final = OrText(turn[c].response.content, ActionCompleted)
                   /\ ~turn[c].stream_err
             /\ (turn[c].iteration = 0) =>
                   /\ turn[c].out = Fragments(Len(turn[c].out))
                   /\ turn[c].final = Joined(Len(turn[c].out)))
    /\ [][\A c \in Contexts :
             (turn[c].mode = "stream" /\ turn'[c].mode = "stream"
                 /\ turn'[c].out # turn[c].out /\ ~turn'[c].err) =>
                Len(turn'[c].out) = Len(turn[c].out) + 1
                /\ SubSeq(turn'[c].out, 1, Len(turn[c].out)) = turn[c].out]_vars

\* C25 witness: a think_stream call that ran two invocation rounds has
\* yielded its one fragment.
C25_Witness ==
    \E c \in Contexts :
        /\ turn[c].mode = "stream" /\ turn[c].pc = "done" /\ ~turn[c].err
        /\ turn[c].iteration = 2
        /\ turn[c].out = <<<<"ans">>>>

\* A think_stream call without an invocation round has yielded two fragments
\* of the backend stream.
C25_StreamedTwo ==
    \E c \in Contexts :
        /\ turn[c].mode = "stream" /\ turn[c].pc = "done" /\ ~turn[c].err
        /\ turn[c].iteration = 0
        /\ turn[c].out = <<<<Chunk(1)>>, <<Chunk(2)>>>>

\* A request goes to the backend in this step.
Sends(c) == turn'[c].sent = turn[c].sent + 1

\* C26: the flag, once set, stays set; the first refusal of a request that
\* carries tools sets it and is followed by the same call's request without
\* tools and with the tool protocol in the prompt; and no request that goes
\* to the backend while the flag is set carries native tools.
C26_FallbackSticky ==
    [][/\ ollama_no_tools => ollama_no_tools'
       /\ \A c \in Contexts :
             /\ (Sends(c) /\ turn'[c].pc = "retry") =>
                   /\ turn[c].request.tools /\ ollama_no_tools'
                   /\ turn'[c].request = [tools |-> FALSE, injected |-> TRUE]
             /\ (Sends(c) /\ ollama_no_tools) => ~turn[c].request.tools]_vars

\* C27: every thought of the list has a score between 0.0 and 1.0 and one of
\* the categories of THOUGHT_CATEGORIES, whatever the backend answered.
C27_ScoreAndCategoryInRange ==
    \A i \in 1..Len(thoughts) :
        /\ thoughts[i].speak_score >= 0 /\ thoughts[i].speak_score <= ScoreOne
        /\ thoughts[i].category \in ThoughtCategories

\* The positions of the well-formed lines of an answer with a label.
WellFormed(content, label) ==
    {i \in 1..Len(content) :
        /\ content[i].label = label
        /\ label = "CATEGORY" => content[i].token \in ThoughtCategories
        /\ label = "SPEAK_SCORE" => content[i].token = "number"}

Largest(S) == CHOOSE i \in S : \A j \in S : j <= i

\* The length of the thought text of an answer: what follows its last
\* THOUGHT label, or the whole answer without one.
ThoughtChars(content) ==
    IF WellFormed(content, "THOUGHT") = {} THEN ContentLen(content)
    ELSE content[Largest(WellFormed(content, "THOUGHT"))].chars

\* The thought the last answer was stored as.
StoredThought == thoughts[Len(thoughts)]

\* An answer without a well-formed line for a field is stored with the
\* default for it.
DefaultsSubstituted(content, thought) ==
    /\ WellFormed(content, "CATEGORY") = {} => thought.category = "observation"
    /\ WellFormed(content, "SPEAK_SCORE") = {} => thought.speak_score = DefaultScore

\* C28 as stated: every _deep_think whose backend call returns appends exactly
\* one thought, with "observation" and 0.5 for a missing or malformed field.
C28_NeverDropped ==
    [][engine'.cycle_count = engine.cycle_count + 1 /\ engine'.last.returned =>
          /\ inserted' = inserted + 1
          /\ Len(thoughts') = Len(thoughts) + 1
          /\ DefaultsSubstituted(engine'.last.content, StoredThought')]_vars

\* C28 amended: a _deep_think whose backend call returns appends one thought
\* when the thought text has more than 5 characters and none otherwise; the
\* thought has the category of the last CATEGORY line that names a category
\* of the list, "observation" without one, and the score of the last
\* SPEAK_SCORE line that is a number, cut at 1.0, 0.5 without one.
C28_DefaultsUnlessShort ==
    [][engine'.cycle_count = engine.cycle_count + 1 /\ engine'.last.returned =>
          LET content == engine'.last.content
              cats == WellFormed(content, "CATEGORY")
              scores == WellFormed(content, "SPEAK_SCORE")
          IN  IF ThoughtChars(content) > 5
              THEN /\ inserted' = inserted + 1
                   /\ thoughts' = Append(thoughts, StoredThought')
                   /\ StoredThought'.category =
                         IF cats = {} THEN "observation" ELSE content[Largest(cats)].token
                   /\ StoredThought'.speak_score =
                         IF scores = {} THEN DefaultScore
                         ELSE Min(content[Largest(scores)].number, ScoreOne)
                   /\ StoredThought'.category \in ThoughtCategories
              ELSE /\ inserted' = inserted /\ thoughts' = thoughts]_vars

\* C28 witness: an answer with a category of the list and a thought text of
\* 5 characters was dropped.
C28_Witness ==
    /\ engine.cycle_count = 1 /\ engine.last.returned
    /\ engine.last.appended = 0
    /\ WellFormed(engine.last.content, "CATEGORY") # {}
    /\ ThoughtChars(engine.last.content) = 5
    /\ thoughts = <<>>

\* The answer stored with the defaults: a category that is not of the list
\* and a score that is not a number.
C28_Malformed ==
    /\ engine.cycle_count = 1 /\ engine.last.appended = 1
    /\ engine.last.content =
          <<[label |-> "CATEGORY", token |-> "musing", number |-> 0, chars |-> 11],
            [label |-> "SPEAK_SCORE", token |-> "high", number |-> 0, chars |-> 16]>>
    /\ thoughts[1].category = "observation" /\ thoughts[1].speak_score = DefaultScore

\* The text names the object.
Mentions(text, object) == \E i \in 1..Len(text.objects) : text.objects[i] = object

\* C29: the text a turn returns, from a backend that echoes the state text,
\* names every object of the detections sentinel.yolo held when the turn
\* built its messages: "person" for a published detection of a person.
C29_EveryDetectionInjected ==
    \A c \in Contexts :
        turn[c].pc = "done" =>
            \A i \in 1..Len(turn[c].seen.detections) :
                Mentions(turn[c].out, turn[c].seen.detections[i].object)

\* C30: the attempts for one signature begin at least 300 seconds apart,
\* whatever the outcome of the earlier one, so that no 300 seconds hold two;
\* in a pass, a problem whose signature is under cooldown is passed over and
\* the pass goes on with the next problem, for which an attempt begins
\* exactly when its own signature is not under cooldown.
C30_CooldownPerSignature ==
    /\ [](\A k \in Signatures : \A i, j \in 1..Len(healer.starts[k]) :
             i < j => healer.starts[k][j] - healer.starts[k][i] >= CooldownSeconds)
    /\ [][(healer.pc = "pass" /\ healer.problems # <<>> /\ healer' # healer) =>
             LET k == Head(healer.problems)
                 recent == \E i \in 1..Len(healer.starts[k]) :
                               now - healer.starts[k][i] < CooldownSeconds
             IN  /\ healer'.pc = "pass"
                 /\ healer'.problems = Tail(healer.problems)
                 /\ recent => healer'.starts = healer.starts
                 /\ ~recent => /\ healer'.starts[k] = Append(healer.starts[k], now)
                               /\ \A m \in Signatures \ {k} :
                                     healer'.starts[m] = healer.starts[m]]_vars

\* C30 witness: an attempt for the first signature raised, the attempt after
\* it began exactly 300 seconds later, and in a pass that passed over that
\* signature an attempt for the other one began.
C30_Witness ==
    /\ Len(healer.starts["permission_error:PermissionError"]) = 2
    /\ healer.starts["permission_error:PermissionError"][2]
           - healer.starts["permission_error:PermissionError"][1] = CooldownSeconds
    /\ Len(healer.pass) = 2
    /\ healer.pass[1] = [key |-> "permission_error:PermissionError", attempt |-> "none"]
    /\ healer.pass[2].key = "ollama_down:Cannot connect to Ollama"
    /\ healer.pass[2].attempt = "raised"

\* The topics that hold an entry.
Published == {t \in Topics : bus_state[t] # None}

\* C31: get_all_state() can be called in every state, also while a publish
\* is under way; what it returns maps exactly the topics published so far to
\* their current entries; and a returned mapping reads the same after every
\* later step, publishes of new topics and overwrites included.
C31_SnapshotIsolated ==
    /\ [](bus_hist.snap.taken < MaxSnapshots => ENABLED TakeSnapshot)
    /\ [][bus_hist'.snap.taken = bus_hist.snap.taken + 1 =>
             /\ DOMAIN SnapshotView' = Published
             /\ \A t \in Published : SnapshotView'[t] = bus_state[t]
             /\ bus_state' = bus_state]_vars
    /\ [][(bus_hist.snap.taken > 0 /\ bus_hist'.snap.taken = bus_hist.snap.taken) =>
             SnapshotView' = SnapshotView]_vars

\* C31 witness: the snapshot in the reader's hands holds one topic with its
\* first payload; since it was taken that topic was overwritten and the
\* other topic was published.
C31_Witness ==
    /\ bus_hist.snap.taken = 1
    /\ DOMAIN SnapshotView = {"sentinel.camera"}
    /\ SnapshotView["sentinel.camera"] = "p1"
    /\ bus_state["sentinel.camera"] = "p2"
    /\ bus_state["sentinel.yolo"] = "p1"

\* A run of a worker's loop function ends in this step, by an exception or
\* by its return.
RunEnds == wcount'.crashes # wcount.crashes \/ wcount'.returns # wcount.returns

\* C32: whenever a run of a worker's loop function ends, by an exception or
\* by a normal return, the wrapper goes into the 10-second backoff before it
\* calls the function again.
C32_BackoffBeforeEveryRestart ==
    [][RunEnds =>
          \E w \in Workers :
              /\ wstate[w] = "running" /\ wstate'[w] = "backoff"
              /\ wsleep'[w] = RestartDelay]_vars

EntriesOfTurn(history, id) == SelectSeq(history, LAMBDA m : m.turn = id)

\* a is what is left of b after its oldest entries are dropped
IsSuffix(a, b) ==
    Len(a) <= Len(b) /\ a = SubSeq(b, Len(b) - Len(a) + 1, Len(b))

\* C34: a step of a turn changes the history in two places only: the call
\* appends the user entry and the completion appends the final assistant text
\* (the oldest entries may then be trimmed away); the steps in between, however
\* many invocation rounds they make, leave the history alone, and no "calling
\* tools" or "Tool results" working message is ever in the history.
C34_TurnAddsUserThenAssistant ==
    [][\A c \in Contexts :
         turn'[c] # turn[c] =>
            LET h == conversation_history'
                id == turn'[c].id
            IN  /\ \A i \in 1..Len(h) : ~Working(h[i])
                /\ IF turn[c].pc = "boot" THEN TRUE
                   ELSE IF turn[c].pc = "idle"
                   THEN h = Append(conversation_history, Msg("user", <<"input">>, id))
                   ELSE IF turn'[c].completed /\ ~turn[c].completed
                   THEN /\ IsSuffix(h, Append(conversation_history,
                                              Msg("assistant", turn'[c].final, id)))
                        /\ Len(h) >= 1
                        /\ Len(SelectSeq(EntriesOfTurn(h, id),
                                         LAMBDA m : m.role = "assistant")) = 1
                        /\ \A i \in 1..Len(h) :
                              (h[i].turn = id /\ h[i].role = "user") => i < Len(h)
                   ELSE h = conversation_history]_vars

\* C34 witness: a turn of two invocation rounds has completed; its working
\* list holds the four messages of the rounds, the history its two entries,
\* the user entry first.
C34_Witness ==
    \E c \in Contexts :
        /\ turn[c].completed /\ turn[c].iteration = 2
        /\ Len(SelectSeq(turn[c].messages, Working)) = 4
        /\ LET e == EntriesOfTurn(conversation_history, turn[c].id)
           IN  Len(e) = 2 /\ e[1].role = "user" /\ e[2].role = "assistant"

\* C35: the scheduler is paused only while a turn of the orchestrator is in
\* progress: when the loop is back at the top of an iteration or listening,
\* the pause made for the input just handled has been released.
C35_PausedOnlyDuringTurn ==
    talk.paused => turn.pc \in {"turn", "exited"}

\* C36: the marking that follows an emission sets the spoken flag of the
\* emitted thought itself, if the buffer still holds it, and changes the flag
\* of no other thought, so that the emitted thought is not eligible again.
C36_MarksTheEmittedThought ==
    [][(talk.pc = "mark" /\ talk'.pc = "top") =>
          \A t \in Range(thoughts') :
              /\ t.n = talk.best.n => t.spoken
              /\ t.n # talk.best.n =>
                    \E u \in Range(thoughts) : u.n = t.n /\ u.spoken = t.spoken]_vars

\* C37: the thought the scheduler chose had, when the buffer was read, a
\* speak_score above 0.5 and a creation time within the last
\* min_interval + 10 seconds; a thought of the default score 0.5 or of the
\* alert score 0.2 is never the one chosen.
C37_EligibilityFilter ==
    HasChosen =>
        /\ talk.best.speak_score > SpeakThreshold
        /\ talk.best.timestamp_epoch > talk.read.at - (talk.min_interval + WindowExtra)
        /\ talk.best.speak_score \notin {DefaultScore, AlertScore}

\* C37 witness: a thought is being spoken that was read next to an unspoken
\* thought of the same second whose score is 0.5 or 0.2.
C37_Witness ==
    /\ talk.pc = "speaking"
    /\ \E t \in Range(talk.read.buffer) :
          /\ t.speak_score \in {DefaultScore, AlertScore}
          /\ ~t.spoken
          /\ t.timestamp_epoch = talk.best.timestamp_epoch

\* C38: of the threads an instance has started, at most one is inside the
\* body of the loop at any time: a thread started before a stop() ends at its
\* next test of the running flag.
C38_OneLoopThread ==
    Cardinality({t \in 1..Len(engine.threads) : engine.threads[t].pc = "body"}) <= 1

\* The fragments a caller received, one after the other.
RECURSIVE Concat(_)
Concat(out) == IF out = <<>> THEN <<>> ELSE Head(out) \o Concat(Tail(out))

\* C39: the step that completes a streaming turn appends an assistant entry
\* equal to the fragments delivered, in order; after invocation rounds the
\* one fragment is the answer of the last query, made on the working list as
\* it stands; without rounds the stream was requested on the list the
\* decision query was made on; and while a streaming turn is not complete
\* the history holds no assistant entry of it.
C39_StreamedTextIsRecorded ==
    /\ [][\A c \in Contexts :
            (turn'[c].completed /\ ~turn[c].completed /\ turn[c].mode = "stream") =>
               LET h == conversation_history'
               IN  /\ h[Len(h)] = Msg("assistant", Concat(turn[c].out), turn[c].id)
                   /\ turn[c].asked = turn[c].messages
                   /\ IF turn[c].iteration > 0
                      THEN turn[c].out = <<OrText(turn[c].response.content, ActionCompleted)>>
                      ELSE turn[c].streamed = turn[c].asked]_vars
    /\ [](\A c \in Contexts :
            (turn[c].mode = "stream" /\ ~turn[c].completed) =>
               \A i \in 1..Len(conversation_history) :
                  ~(conversation_history[i].turn = turn[c].id
                    /\ conversation_history[i].role = "assistant"))

\* C39 witness: a streaming turn without invocation rounds has completed
\* after two fragments; the last entry of the history is the two fragments.
C39_Witness ==
    \E c \in Contexts :
        /\ turn[c].mode = "stream" /\ turn[c].completed /\ turn[c].iteration = 0
        /\ Len(turn[c].out) = 2
        /\ conversation_history # <<>>
        /\ conversation_history[Len(conversation_history)].content = <<Chunk(1), Chunk(2)>>

====
